---- MODULE Spec2Model ----
(***************************************************************************)
(* State-machine model of the web scraping tool:                           *)
(*   - ProxyManager (proxy_manager.py): the proxy pool, its rotation       *)
(*     strategies, make_request with its retry loop, health probes and     *)
(*     statistics.  Several callers may run make_request concurrently; the *)
(*     only code under self.lock is get_next_proxy and add_proxy, so every *)
(*     counter update "x += 1" outside the lock is a load followed by a    *)
(*     store.                                                              *)
(*   - WebScrapingTool.scrape_from_urls (main.py) with WebScraper          *)
(*     scrape_url and the tiered extraction (scraper.py).                  *)
(*   - The discovery classes (search_discovery.py,                         *)
(*     search_discovery_improved.py) and the search command.               *)
(*   - JobScheduler (job_scheduler.py) and WebDashboard (web_dashboard.py) *)
(*     with the executions they run on worker threads.                     *)
(* Timestamps (last_used), log output and sleeps carry no control flow and *)
(* are left out.                                                           *)
(***************************************************************************)
EXTENDS Integers, Sequences, FiniteSets, TLC

\* ------------------------------------------------------------------ bounds
MaxProxies == 2      \* ProxyInfo objects created in one run
NumCallers == 2      \* threads calling make_request on one ProxyManager
MaxCalls == 2        \* make_request invocations in one run
MaxMaint == 2        \* probes / resets in one run
MaxConcAttempts == 3 \* requests sent in one run of concurrent callers
MaxBatch == 3        \* URLs in one batch
MaxList == 3         \* URLs in one list handed to _filter_company_urls
MaxDiscoveryCalls == 2  \* calls on one discovery instance
MaxNet == 1          \* URLs one network-backed strategy contributes
MaxRotation == 3     \* endpoints of the pool whose rotation is followed
MaxJobs == 1         \* jobs handed to one JobScheduler
MaxRuns == 2         \* executions of one scheduled job
MaxDashJobs == 1     \* jobs created on one WebDashboard
MaxStarts == 2       \* start_job calls on one WebDashboard

\* ------------------------------------------------------- program constants
max_failures == 3    \* ProxyManager.max_failures
max_retries == 3     \* make_request: max_retries

ROUND_ROBIN == "round_robin"
RANDOM == "random"
BEST_PERFORMANCE == "best_performance"
WEIGHTED_RANDOM == "weighted_random"
Strategies == {ROUND_ROBIN, RANDOM, BEST_PERFORMANCE, WEIGHTED_RANDOM}

ProxyIds == 1..(IF MaxRotation > MaxProxies THEN MaxRotation ELSE MaxProxies)
Callers == 1..NumCallers
ResponseTimes == {1, 2}      \* measured latencies of a successful probe

VARIABLES
    \* ---- ProxyManager
    proxies,            \* self.proxies: list of ProxyInfo objects (by identity)
    info,               \* the fields of every ProxyInfo object
    next_id,            \* identity of the next ProxyInfo to be constructed
    rotation_strategy,  \* self.rotation_strategy
    current_index,      \* self.current_index
    usage_stats,        \* self.usage_stats
    \* ---- one make_request activation per caller
    pc,                 \* position of the caller inside make_request
    retry_count,        \* local retry_count
    proxy,              \* local proxy (0: unbound)
    kwargs_proxies,     \* kwargs['proxies'] (0: key absent)
    outcome,            \* whether requests.request returned or raised
    step,               \* which counter of the stats block is being updated
    tmp,                \* value loaded by the current "x += 1"
    \* ---- history variables
    attempts,           \* requests sent by the current activation
    fails,              \* of these, how many raised
    ret,                \* the return of make_request that has just happened
    recorded,           \* outcomes that were to be recorded on each endpoint
    total_attempts,     \* requests sent by all activations since the reset
    last_pick,          \* the return of get_next_proxy that has just happened
    last_probe,         \* the test_all_proxies run that has just completed
    recent,             \* round-robin picks since the working set changed
    calls,              \* make_request invocations so far
    maint,              \* probes / resets so far
    \* ---- WebScrapingTool.scrape_from_urls / WebScraper.scrape_multiple_urls
    mode,               \* which of the two batch operations runs
    urls,               \* the submitted URL list
    extraction_level,   \* the requested level
    b_pc,               \* "loop", "returned" or "raised"
    next_item,          \* position of the for loop in urls
    results,            \* results
    failed_urls,        \* failed_urls
    b_ret,              \* the returned dictionary
    scrape_log,         \* history: the items taken up by the loop, in order
    net_calls,          \* history: page fetches made for each handled item
    last_scrape,        \* the scrape_url call that has just returned
    \* ---- SearchDiscovery / ImprovedSearchDiscovery: one instance
    d_kind,             \* the class of the instance
    discovered_urls,    \* self.discovered_urls
    d_last,             \* history: the call that has just returned
    d_calls,            \* history: calls made on the instance
    \* ---- the search command: scrape_from_query, then tool.close()
    q_pc,               \* position of the command
    q_in,               \* query, max_results and level of the command line
    q_urls,             \* local urls of scrape_from_query
    q_hist,             \* history: how discovery, the call and close() ended
    resources,          \* the browser drivers and HTTP sessions of the run
    \* ---- one WebScraper.scrape_url call, followed fetch by fetch
    x_pc,               \* the tier about to fetch, or "contact", "done", "idle"
    x_in,               \* the level asked for and how Selenium came up
    x_data,             \* the dictionary data
    x_left,             \* contact pages still to be followed
    x_hist,             \* history: the page behind the record, tiers completed
    x_last,             \* history: the contact page merge that has just ended
    \* ---- one WebScraper._extract_founded_year call
    fy,                 \* the matches in the page text, the clock, the value returned
    \* ---- JobScheduler
    scheduled_jobs,     \* self.scheduled_jobs: job id -> ScheduledJob
    scheduler,          \* self.scheduler: what the APScheduler job store holds
    s_pc,               \* position of the execution of every job
    s_run,              \* locals of the execution: result, tool; history: interrupted
    job_history,        \* self.job_history
    s_last,             \* history: the execution that has just finished
    \* ---- WebDashboard
    w_jobs,             \* the ScrapingJob objects: job id -> status
    active_jobs,        \* self.active_jobs (the ids it holds)
    completed_jobs,     \* self.completed_jobs
    system_stats,       \* self.system_stats
    w_pc,               \* position of every _execute_job thread
    w_run,              \* locals of every thread: job_id, result, tool
    w_last              \* history: the step an execution has just made

poolVars == <<proxies, info, next_id, rotation_strategy, current_index, usage_stats>>
callerVars == <<pc, retry_count, proxy, kwargs_proxies, outcome, step, tmp>>
histVars == <<attempts, fails, ret, recorded, total_attempts, last_pick, last_probe,
              recent, calls, maint>>
batchVars == <<mode, urls, extraction_level, b_pc, next_item, results, failed_urls,
               b_ret, scrape_log, net_calls, last_scrape>>
discVars == <<d_kind, discovered_urls, d_last, d_calls>>
queryVars == <<q_pc, q_in, q_urls, q_hist, resources>>
extractVars == <<x_pc, x_in, x_data, x_left, x_hist, x_last>>
yearVars == <<fy>>
schedVars == <<scheduled_jobs, scheduler, s_pc, s_run, job_history, s_last>>
dashVars == <<w_jobs, active_jobs, completed_jobs, system_stats, w_pc, w_run, w_last>>
lateVars == <<yearVars, schedVars, dashVars>>
nonPoolVars == <<batchVars, discVars, queryVars, extractVars, lateVars>>
nonBatchVars == <<poolVars, callerVars, histVars, discVars, queryVars, extractVars, lateVars>>
nonDiscVars == <<poolVars, callerVars, histVars, batchVars, queryVars, extractVars, lateVars>>
nonQueryVars == <<poolVars, callerVars, histVars, extractVars, lateVars>>
nonExtractVars == <<poolVars, callerVars, histVars, batchVars, discVars, queryVars, lateVars>>
vars == <<poolVars, callerVars, histVars, batchVars, discVars, queryVars, extractVars,
          lateVars>>

\* the sequences over S of length at most n
RECURSIVE SeqsUpTo(_, _)
SeqsUpTo(S, n) ==
    IF n = 0 THEN {<<>>}
    ELSE LET shorter == SeqsUpTo(S, n - 1)
         IN  shorter \cup {Append(q, x) : q \in {r \in shorter : Len(r) = n - 1}, x \in S}

\* --------------------------------------------------------------- ProxyInfo
FreshProxy == [success_count |-> 0, failure_count |-> 0,
               is_working |-> TRUE, response_time |-> 0]

\* variant: an endpoint without recorded attempts gets the rate 0
success_rate_ZeroWhenUnused(p) ==
    LET total == p.success_count + p.failure_count
    IN  IF total = 0 THEN <<0, 1>> ELSE <<p.success_count, total>>

\* ProxyInfo.success_rate as the fraction <<numerator, denominator>>
success_rate(p) ==
    LET total == p.success_count + p.failure_count
    IN  IF total = 0 THEN <<1, 1>> ELSE <<p.success_count, total>>

RateLess(a, b) == a[1] * b[2] < b[1] * a[2]
RateEq(a, b) == a[1] * b[2] = b[1] * a[2]

\* ----------------------------------------------------------- get_next_proxy
\* variant: the list is not filtered by is_working
WorkingProxies_Unfiltered(ps, inf) == ps

\* working_proxies = [p for p in self.proxies if p.is_working]
WorkingProxies(ps, inf) == SelectSeq(ps, LAMBDA p : inf[p].is_working)

\* variant: the list is indexed from its end
RoundRobinPick_Reversed(w, idx) == w[Len(w) - (idx % Len(w))]

\* working_proxies[self.current_index % len(working_proxies)]
RoundRobinPick(w, idx) == w[(idx % Len(w)) + 1]

\* variant: the index is reduced but not advanced
NextIndex_NotAdvanced(idx, n) == idx % n

NextIndex(idx, n) == (idx + 1) % n

\* key=lambda p: (p.success_rate, -p.response_time if p.response_time else 0)
PerfKey2(p) == IF p.response_time # 0 THEN 0 - p.response_time ELSE 0

KeyLess(a, b) ==
    \/ RateLess(success_rate(a), success_rate(b))
    \/ /\ RateEq(success_rate(a), success_rate(b))
       /\ PerfKey2(a) < PerfKey2(b)

\* sorted(..., reverse=True)[0]: the sort is stable, so among the endpoints
\* with the greatest key the one that comes first in the list wins.
BestPerformancePick(w, inf) ==
    LET i == CHOOSE k \in 1..Len(w) :
                /\ \A j \in 1..Len(w) : ~KeyLess(inf[w[k]], inf[w[j]])
                /\ \A j \in 1..(k - 1) : KeyLess(inf[w[j]], inf[w[k]])
    IN  w[i]

\* weights = [p.success_rate for p in working_proxies]
WeightIsZero(p) == success_rate(p)[1] = 0

AllWeightsZero(w, inf) == \A i \in 1..Len(w) : WeightIsZero(inf[w[i]])

\* random.choices(working_proxies, weights=weights)[0].  An endpoint of
\* weight 0 spans an empty interval of the cumulative weights and is never
\* drawn.  When the weights sum to 0, Python >= 3.9 raises ValueError and
\* Python 3.8 (the oldest version setup.py accepts) returns the last element.
WeightedPicks(w, inf) ==
    IF AllWeightsZero(w, inf)
    THEN {w[Len(w)]}
    ELSE {w[i] : i \in {k \in 1..Len(w) : ~WeightIsZero(inf[w[k]])}}

WeightedMayRaise(w, inf) == AllWeightsZero(w, inf)

\* the endpoints one get_next_proxy call may return from working list w
Picks(strategy, w, inf, idx) ==
    IF strategy = ROUND_ROBIN THEN {RoundRobinPick(w, idx)}
    ELSE IF strategy = RANDOM THEN {w[i] : i \in 1..Len(w)}
    ELSE IF strategy = BEST_PERFORMANCE THEN {BestPerformancePick(w, inf)}
    ELSE WeightedPicks(w, inf)

IndexAfter(strategy, w, idx) ==
    IF strategy = ROUND_ROBIN THEN NextIndex(idx, Len(w)) ELSE idx

LastN(s, n) == IF Len(s) <= n THEN s ELSE SubSeq(s, Len(s) - n + 1, Len(s))

RecentAfterPick(strategy, w, p) ==
    IF strategy = ROUND_ROBIN THEN LastN(Append(recent, p), Len(w)) ELSE recent

\* the round-robin history is kept only while the working set stays the same
RecentAfter(ps2, inf2) ==
    IF WorkingProxies(ps2, inf2) = WorkingProxies(proxies, info) THEN recent ELSE <<>>

AnyWorking == \E i \in 1..Len(proxies) : info[proxies[i]].is_working

PickRecord(kind, p) ==
    [kind |-> kind, id |-> p,
     working |-> IF p = 0 THEN FALSE ELSE info[p].is_working,
     failures |-> IF p = 0 THEN 0 ELSE info[p].failure_count,
     any_working |-> AnyWorking]

NoPick == [kind |-> "no_call", id |-> 0, working |-> FALSE, failures |-> 0,
           any_working |-> FALSE]

\* no test_all_proxies run has just completed
NoProbe == [op |-> "none", passed |-> {}, failed |-> {}]

NoRet == [caller |-> 0, result |-> "no_return", attempts |-> 0, fails |-> 0,
          got_none |-> FALSE]

\* -------------------------------------------------------------------- Init
ZeroStats == [total_requests |-> 0, successful_requests |-> 0,
              failed_requests |-> 0, proxy_failures |-> 0]

\* no scrape_url call has just returned
NoScrape == [called |-> FALSE, url |-> "", level |-> "",
             f1 |-> FALSE, f2 |-> FALSE, f3 |-> FALSE, exc |-> FALSE,
             keys |-> {}, extraction_level |-> ""]

\* the batch operations before any batch was submitted
BatchIdle ==
    /\ mode = "none"
    /\ urls = <<>>
    /\ extraction_level = "basic"
    /\ b_pc = "idle"
    /\ next_item = 1
    /\ results = <<>>
    /\ failed_urls = <<>>
    /\ b_ret = [kind |-> "none"]
    /\ scrape_log = <<>>
    /\ net_calls = <<>>
    /\ last_scrape = NoScrape

\* no call on the discovery instance has returned yet
NoCall == [op |-> "none", input |-> <<>>, output |-> <<>>, fresh |-> FALSE,
           had_prev |-> FALSE, prev_out |-> <<>>, query |-> "", max_results |-> 0,
           queried |-> <<>>]

\* the SearchDiscovery instance of a tool that has discovered nothing
DiscIdle ==
    /\ d_kind = "SearchDiscovery"
    /\ discovered_urls = {}
    /\ d_last = NoCall
    /\ d_calls = 0

\* the drivers and sessions a tool and its fallback discovery can own
ResourceNames == {"scraper.driver", "scraper.session", "discovery.driver",
                  "discovery.session", "improved.session"}

NoHistory == [primary |-> "none", secondary |-> "none", ret |-> "none", close |-> "none"]

\* no search command is running
QueryIdle ==
    /\ q_pc = "idle"
    /\ q_in = [query |-> "", max_results |-> 0, level |-> "basic"]
    /\ q_urls = <<>>
    /\ q_hist = NoHistory
    /\ resources = [r \in ResourceNames |-> "absent"]

\* a record before anything was extracted, and the record of a failed call
NoData == [keys |-> {}, email |-> {}, phone |-> {}, address |-> "", description |-> "",
           extraction_level |-> ""]

NoStep == [op |-> "none", outcome |-> "none", before |-> NoData]

\* a page without contact data, address or description
NoPage == [emails |-> {}, phones |-> {}, address_element |-> "none",
           address_text |-> FALSE, description |-> ""]

\* no scrape_url call is being followed
ExtractIdle ==
    /\ x_pc = "idle"
    /\ x_in = [level |-> "basic", selenium |-> "off"]
    /\ x_data = NoData
    /\ x_left = 0
    /\ x_hist = [fetched |-> "none", page |-> NoPage, medium_done |-> FALSE,
                 rendered |-> FALSE]
    /\ x_last = NoStep

\* no _extract_founded_year call is being followed
YearIdle == fy = [matches |-> <<>>, this_year |-> 0, called |-> FALSE, year |-> 0]

\* ScheduleType and JobStatus (job_scheduler.py); every recurring schedule
\* type (interval, cron, daily, weekly, monthly) is represented by INTERVAL
ONCE == "once"
INTERVAL == "interval"
SCHEDULED == "scheduled"
RUNNING == "running"
COMPLETED == "completed"
FAILED == "failed"
PAUSED == "paused"
CANCELLED == "cancelled"

JobIds == 1..MaxJobs

\* the locals of an execution that has not created its tool yet
NoRun == [result |-> "none", tool |-> "none", raised |-> FALSE, interrupted |-> "none"]

NoExecution == [finished |-> FALSE, job |-> 0, result |-> "none", raised |-> FALSE,
                tool |-> "none", interrupted |-> "none"]

\* JobScheduler.__init__ without a scheduled_jobs.json file
SchedIdle ==
    /\ scheduled_jobs = <<>>
    /\ scheduler = [j \in JobIds |-> "absent"]
    /\ s_pc = [j \in JobIds |-> "idle"]
    /\ s_run = [j \in JobIds |-> NoRun]
    /\ job_history = <<>>
    /\ s_last = NoExecution

\* JobStatus of web_dashboard.py has PENDING in place of SCHEDULED and PAUSED
PENDING == "pending"

DashJobIds == 1..MaxDashJobs
ThreadIds == 1..MaxStarts

NoThread == [job_id |-> 0, result |-> "none", tool |-> "none"]

NoDashStep == [op |-> "none", job_id |-> 0, status_before |-> "none", counted |-> FALSE]

\* WebDashboard.__init__ without a job history file
DashIdle ==
    /\ w_jobs = <<>>
    /\ active_jobs = {}
    /\ completed_jobs = <<>>
    /\ system_stats = [total_jobs |-> 0, successful_jobs |-> 0, failed_jobs |-> 0]
    /\ w_pc = [t \in ThreadIds |-> "unused"]
    /\ w_run = [t \in ThreadIds |-> NoThread]
    /\ w_last = NoDashStep

\* nothing outside the proxy pool, the scraping commands and the extraction
LateIdle == YearIdle /\ SchedIdle /\ DashIdle

\* a ProxyManager after construction with at most limit loaded endpoints
PoolOfSize(limit) ==
    /\ \E n \in 0..limit :
          /\ proxies = [i \in 1..n |-> i]
          /\ next_id = n + 1
    /\ info = [p \in ProxyIds |-> FreshProxy]
    /\ rotation_strategy \in Strategies
    /\ current_index = 0
    /\ usage_stats = ZeroStats
    /\ pc = [c \in Callers |-> "idle"]
    /\ retry_count = [c \in Callers |-> 0]
    /\ proxy = [c \in Callers |-> 0]
    /\ kwargs_proxies = [c \in Callers |-> 0]
    /\ outcome = [c \in Callers |-> "none"]
    /\ step = [c \in Callers |-> 0]
    /\ tmp = [c \in Callers |-> 0]
    /\ attempts = [c \in Callers |-> 0]
    /\ fails = [c \in Callers |-> 0]
    /\ recorded = [p \in ProxyIds |-> 0]
    /\ total_attempts = 0
    /\ last_pick = NoPick
    /\ last_probe = NoProbe
    /\ ret = NoRet
    /\ recent = <<>>
    /\ calls = 0
    /\ maint = 0

PoolInit == PoolOfSize(MaxProxies)

Init == PoolInit /\ BatchIdle /\ DiscIdle /\ QueryIdle /\ ExtractIdle /\ LateIdle

\* ------------------------------------------------------------ make_request
\* entry: max_retries = 3; retry_count = 0
MakeRequest(c) ==
    /\ pc[c] = "idle"
    /\ calls < MaxCalls
    /\ calls' = calls + 1
    /\ pc' = [pc EXCEPT ![c] = "loop"]
    /\ last_pick' = NoPick
    /\ last_probe' = NoProbe
    /\ ret' = NoRet
    /\ UNCHANGED <<poolVars, retry_count, proxy, kwargs_proxies, outcome, step, tmp,
                   attempts, fails, recorded, total_attempts, recent, maint>>
    /\ UNCHANGED nonPoolVars

\* make_request returns r; its locals no longer exist
Returned(c, r, none) ==
    /\ ret' = [caller |-> c, result |-> r, attempts |-> attempts[c],
               fails |-> fails[c], got_none |-> none]
    /\ pc' = [pc EXCEPT ![c] = "idle"]
    /\ retry_count' = [retry_count EXCEPT ![c] = 0]
    /\ proxy' = [proxy EXCEPT ![c] = 0]
    /\ kwargs_proxies' = [kwargs_proxies EXCEPT ![c] = 0]
    /\ outcome' = [outcome EXCEPT ![c] = "none"]
    /\ step' = [step EXCEPT ![c] = 0]
    /\ tmp' = [tmp EXCEPT ![c] = 0]
    /\ attempts' = [attempts EXCEPT ![c] = 0]
    /\ fails' = [fails EXCEPT ![c] = 0]

\* variant: off-by-one loop condition
RetryGuard_OffByOne(rc) == rc <= max_retries

\* while retry_count < max_retries
RetryGuard(rc) == rc < max_retries

\* proxy = self.get_next_proxy(), which runs as a whole under self.lock;
\* "if not proxy: return None"
SelectNone(c) ==
    /\ pc[c] = "loop"
    /\ RetryGuard(retry_count[c])
    /\ WorkingProxies(proxies, info) = <<>>
    /\ last_pick' = PickRecord("none", 0)
    /\ last_probe' = NoProbe
    /\ Returned(c, "None", TRUE)
    /\ UNCHANGED <<poolVars, recorded, total_attempts, recent, calls, maint>>
    /\ UNCHANGED nonPoolVars

SelectProxy(c) ==
    /\ pc[c] = "loop"
    /\ RetryGuard(retry_count[c])
    /\ LET w == WorkingProxies(proxies, info) IN
       /\ w # <<>>
       /\ \E p \in Picks(rotation_strategy, w, info, current_index) :
             /\ proxy' = [proxy EXCEPT ![c] = p]
             /\ last_pick' = PickRecord("proxy", p)
             /\ last_probe' = NoProbe
             /\ recent' = RecentAfterPick(rotation_strategy, w, p)
       /\ current_index' = IndexAfter(rotation_strategy, w, current_index)
    /\ pc' = [pc EXCEPT ![c] = "request"]
    /\ ret' = NoRet
    /\ UNCHANGED <<proxies, info, next_id, rotation_strategy, usage_stats,
                   retry_count, kwargs_proxies, outcome, step, tmp,
                   attempts, fails, recorded, total_attempts, calls, maint>>
    /\ UNCHANGED nonPoolVars

\* get_next_proxy is called outside the try block: the ValueError of
\* random.choices leaves make_request
SelectRaises(c) ==
    /\ pc[c] = "loop"
    /\ RetryGuard(retry_count[c])
    /\ rotation_strategy = WEIGHTED_RANDOM
    /\ LET w == WorkingProxies(proxies, info) IN
       /\ w # <<>>
       /\ WeightedMayRaise(w, info)
    /\ last_pick' = PickRecord("raise", 0)
    /\ last_probe' = NoProbe
    /\ Returned(c, "raised", FALSE)
    /\ UNCHANGED <<poolVars, recorded, total_attempts, recent, calls, maint>>
    /\ UNCHANGED nonPoolVars

\* the loop condition fails: "Failed to make request ... after 3 retries"
RetriesExhausted(c) ==
    /\ pc[c] = "loop"
    /\ ~RetryGuard(retry_count[c])
    /\ last_pick' = NoPick
    /\ last_probe' = NoProbe
    /\ Returned(c, "None", FALSE)
    /\ UNCHANGED <<poolVars, recorded, total_attempts, recent, calls, maint>>
    /\ UNCHANGED nonPoolVars

\* if 'proxies' not in kwargs: kwargs['proxies'] = proxy.to_dict()
KwargsAfter(kw, p) == IF kw = 0 THEN p ELSE kw

\* response = requests.request(method, url, **kwargs): returns or raises
Request(c) ==
    /\ pc[c] = "request"
    /\ kwargs_proxies' = [kwargs_proxies EXCEPT ![c] = KwargsAfter(kwargs_proxies[c], proxy[c])]
    /\ \E o \in {"ok", "fail"} :
          /\ outcome' = [outcome EXCEPT ![c] = o]
          /\ fails' = [fails EXCEPT ![c] = IF o = "fail" THEN @ + 1 ELSE @]
    /\ attempts' = [attempts EXCEPT ![c] = @ + 1]
    /\ recorded' = [recorded EXCEPT ![proxy[c]] = @ + 1]
    /\ total_attempts' = total_attempts + 1
    /\ step' = [step EXCEPT ![c] = 1]
    /\ pc' = [pc EXCEPT ![c] = "load"]
    /\ last_pick' = NoPick
    /\ last_probe' = NoProbe
    /\ ret' = NoRet
    /\ UNCHANGED <<poolVars, retry_count, proxy, tmp, recent, calls, maint>>
    /\ UNCHANGED nonPoolVars

\* the counters each branch increments, in program order
SuccessOps == <<"success_count", "total_requests", "successful_requests">>
\* variant: proxy_failures is not counted
FailureOps_NoProxyFailures == <<"failure_count", "total_requests", "failed_requests">>

FailureOps == <<"failure_count", "total_requests", "failed_requests", "proxy_failures">>

Ops(o) == IF o = "ok" THEN SuccessOps ELSE FailureOps

IsProxyField(f) == f \in {"success_count", "failure_count"}

\* "x += 1", first half: load x
LoadCounter(c) ==
    /\ pc[c] = "load"
    /\ LET f == Ops(outcome[c])[step[c]] IN
       tmp' = [tmp EXCEPT ![c] = IF IsProxyField(f) THEN info[proxy[c]][f]
                                 ELSE usage_stats[f]]
    /\ pc' = [pc EXCEPT ![c] = "store"]
    /\ last_pick' = NoPick
    /\ last_probe' = NoProbe
    /\ ret' = NoRet
    /\ UNCHANGED <<poolVars, retry_count, proxy, kwargs_proxies, outcome, step,
                   attempts, fails, recorded, total_attempts, recent, calls, maint>>
    /\ UNCHANGED nonPoolVars

Incremented(v) == v + 1

\* "x += 1", second half: store the loaded value plus one.  After the last
\* counter the success branch returns the response and the failure branch
\* goes on to the threshold test.
StoreCounter(c) ==
    /\ pc[c] = "store"
    /\ LET f == Ops(outcome[c])[step[c]] IN
       /\ info' = IF IsProxyField(f)
                  THEN [info EXCEPT ![proxy[c]][f] = Incremented(tmp[c])]
                  ELSE info
       /\ usage_stats' = IF IsProxyField(f)
                         THEN usage_stats
                         ELSE [usage_stats EXCEPT ![f] = Incremented(tmp[c])]
    /\ IF step[c] < Len(Ops(outcome[c]))
       THEN /\ step' = [step EXCEPT ![c] = @ + 1]
            /\ pc' = [pc EXCEPT ![c] = "load"]
            /\ tmp' = [tmp EXCEPT ![c] = 0]
            /\ ret' = NoRet
            /\ UNCHANGED <<retry_count, proxy, kwargs_proxies, outcome, attempts, fails>>
       ELSE IF outcome[c] = "ok"
       THEN Returned(c, "response", FALSE)
       ELSE /\ step' = [step EXCEPT ![c] = 0]
            /\ pc' = [pc EXCEPT ![c] = "mark"]
            /\ tmp' = [tmp EXCEPT ![c] = 0]
            /\ ret' = NoRet
            /\ UNCHANGED <<retry_count, proxy, kwargs_proxies, outcome, attempts, fails>>
    /\ recent' = RecentAfter(proxies, info')
    /\ last_pick' = NoPick
    /\ last_probe' = NoProbe
    /\ UNCHANGED <<proxies, next_id, rotation_strategy, current_index,
                   recorded, total_attempts, calls, maint>>
    /\ UNCHANGED nonPoolVars

\* if proxy.failure_count >= self.max_failures: proxy.is_working = False
ReachedThreshold(p) == p.failure_count >= max_failures

\* threshold test, then retry_count += 1
MarkAndRetry(c) ==
    /\ pc[c] = "mark"
    /\ info' = IF ReachedThreshold(info[proxy[c]])
               THEN [info EXCEPT ![proxy[c]].is_working = FALSE]
               ELSE info
    /\ retry_count' = [retry_count EXCEPT ![c] = @ + 1]
    /\ pc' = [pc EXCEPT ![c] = "loop"]
    /\ recent' = RecentAfter(proxies, info')
    /\ last_pick' = NoPick
    /\ last_probe' = NoProbe
    /\ ret' = NoRet
    /\ UNCHANGED <<proxies, next_id, rotation_strategy, current_index, usage_stats,
                   proxy, kwargs_proxies, outcome, step, tmp,
                   attempts, fails, recorded, total_attempts, calls, maint>>
    /\ UNCHANGED nonPoolVars

\* --------------------------------------------- direct get_next_proxy calls
\* the pool's other operations are called by its owner between dispatches
Quiescent == \A c \in Callers : pc[c] = "idle"

GetNextProxyNone ==
    /\ Quiescent
    /\ WorkingProxies(proxies, info) = <<>>
    /\ last_pick' = PickRecord("none", 0)
    /\ last_probe' = NoProbe
    /\ ret' = NoRet
    /\ UNCHANGED <<poolVars, callerVars, attempts, fails, recorded,
                   total_attempts, recent, calls, maint>>
    /\ UNCHANGED nonPoolVars

GetNextProxy ==
    /\ Quiescent
    /\ LET w == WorkingProxies(proxies, info) IN
       /\ w # <<>>
       /\ \E p \in Picks(rotation_strategy, w, info, current_index) :
             /\ last_pick' = PickRecord("proxy", p)
             /\ last_probe' = NoProbe
             /\ recent' = RecentAfterPick(rotation_strategy, w, p)
       /\ current_index' = IndexAfter(rotation_strategy, w, current_index)
    /\ ret' = NoRet
    /\ UNCHANGED <<proxies, info, next_id, rotation_strategy, usage_stats, callerVars,
                   attempts, fails, recorded, total_attempts, calls, maint>>
    /\ UNCHANGED nonPoolVars

GetNextProxyRaises ==
    /\ Quiescent
    /\ rotation_strategy = WEIGHTED_RANDOM
    /\ LET w == WorkingProxies(proxies, info) IN
       /\ w # <<>>
       /\ WeightedMayRaise(w, info)
    /\ last_pick' = PickRecord("raise", 0)
    /\ last_probe' = NoProbe
    /\ ret' = NoRet
    /\ UNCHANGED <<poolVars, callerVars, attempts, fails, recorded,
                   total_attempts, recent, calls, maint>>
    /\ UNCHANGED nonPoolVars

\* ------------------------------------------------------------ health probes
\* what requests.get of test_proxy can do: answer 200 after some latency,
\* answer another status, or raise
ProbeOutcomes == {<<"ok", rt>> : rt \in ResponseTimes} \cup {<<"non200", 0>>, <<"exc", 0>>}

\* test_proxy: the fields of one ProxyInfo after a probe with outcome o
Probed(p, o) ==
    IF o[1] = "ok"
    THEN [p EXCEPT !.response_time = o[2],
                   !.success_count = @ + 1,
                   !.is_working = TRUE]
    ELSE IF o[1] = "non200"
    THEN [p EXCEPT !.failure_count = @ + 1]
    ELSE LET q == [p EXCEPT !.failure_count = @ + 1]
         IN  IF ReachedThreshold(q) THEN [q EXCEPT !.is_working = FALSE] ELSE q

InList(p) == \E i \in 1..Len(proxies) : proxies[i] = p

TestProxy ==
    /\ Quiescent
    /\ maint < MaxMaint
    /\ maint' = maint + 1
    /\ \E i \in 1..Len(proxies) : \E o \in ProbeOutcomes :
          /\ info' = [info EXCEPT ![proxies[i]] = Probed(@, o)]
          /\ recorded' = [recorded EXCEPT ![proxies[i]] = @ + 1]
    /\ recent' = RecentAfter(proxies, info')
    /\ last_pick' = NoPick
    /\ last_probe' = NoProbe
    /\ ret' = NoRet
    /\ UNCHANGED <<proxies, next_id, rotation_strategy, current_index, usage_stats,
                   callerVars, attempts, fails, total_attempts, calls>>
    /\ UNCHANGED nonPoolVars

\* self.proxies = [p for p in self.proxies if p.is_working]
Pruned(ps, inf) == SelectSeq(ps, LAMBDA p : inf[p].is_working)

\* history: the endpoints whose probe returned True (is_working of the
\* result entry) and those whose probe returned False in one run
ProbeRecord(outs) ==
    [op |-> "test_all",
     passed |-> {proxies[i] : i \in {k \in 1..Len(proxies) : outs[k][1] = "ok"}},
     failed |-> {proxies[i] : i \in {k \in 1..Len(proxies) : outs[k][1] # "ok"}}]

\* test_all_proxies: probe every endpoint of the list, then drop the
\* endpoints that are not working
TestAllProxies ==
    /\ Quiescent
    /\ maint < MaxMaint
    /\ maint' = maint + 1
    /\ proxies # <<>>
    /\ \E outs \in [1..Len(proxies) -> ProbeOutcomes] :
          /\ info' = [p \in ProxyIds |->
                        IF InList(p)
                        THEN Probed(info[p], outs[CHOOSE i \in 1..Len(proxies) : proxies[i] = p])
                        ELSE info[p]]
          /\ proxies' = Pruned(proxies, info')
          /\ last_probe' = ProbeRecord(outs)
    /\ recorded' = [p \in ProxyIds |-> IF InList(p) THEN recorded[p] + 1 ELSE recorded[p]]
    /\ recent' = RecentAfter(proxies', info')
    /\ last_pick' = NoPick
    /\ ret' = NoRet
    /\ UNCHANGED <<next_id, rotation_strategy, current_index, usage_stats,
                   callerVars, attempts, fails, total_attempts, calls>>
    /\ UNCHANGED nonPoolVars

CleanupFailedProxies ==
    /\ Quiescent
    /\ proxies' = Pruned(proxies, info)
    /\ proxies' # proxies
    /\ recent' = RecentAfter(proxies', info)
    /\ last_pick' = NoPick
    /\ last_probe' = NoProbe
    /\ ret' = NoRet
    /\ UNCHANGED <<info, next_id, rotation_strategy, current_index, usage_stats,
                   callerVars, attempts, fails, recorded, total_attempts, calls, maint>>
    /\ UNCHANGED nonPoolVars

\* reset_proxy_stats: every endpoint of the list gets its counters cleared
\* and is working again; usage_stats starts over
ResetProxy(p) == [p EXCEPT !.success_count = 0, !.failure_count = 0, !.is_working = TRUE]

ResetProxyStats ==
    /\ Quiescent
    /\ maint < MaxMaint
    /\ maint' = maint + 1
    /\ info' = [p \in ProxyIds |-> IF InList(p) THEN ResetProxy(info[p]) ELSE info[p]]
    /\ usage_stats' = ZeroStats
    /\ recorded' = [p \in ProxyIds |-> IF InList(p) THEN 0 ELSE recorded[p]]
    /\ total_attempts' = 0
    /\ recent' = RecentAfter(proxies, info')
    /\ last_pick' = NoPick
    /\ last_probe' = NoProbe
    /\ ret' = NoRet
    /\ UNCHANGED <<proxies, next_id, rotation_strategy, current_index,
                   callerVars, attempts, fails, calls>>
    /\ UNCHANGED nonPoolVars

\* representative entries of a saved file: success_rate as a fraction,
\* response_time with 0 for null
SavedEntries == {[success_rate |-> <<7, 10>>, response_time |-> 1],
                 [success_rate |-> <<1, 1>>, response_time |-> 0],
                 [success_rate |-> <<0, 1>>, response_time |-> 1]}

\* int(10 * (1 - data['success_rate'])); for the rates above the floating
\* point result is the floor of the exact value (1 - 0.7 is a little more
\* than 0.3)
RestoredFailures(rate) == (10 * (rate[2] - rate[1])) \div rate[2]

\* load_working_proxies, loop body: a new ProxyInfo with approximate
\* counters when the saved success_rate is > 0; is_working keeps its default
LoadedProxy(data) ==
    [success_count |-> IF data.success_rate[1] > 0 THEN 10 ELSE 0,
     failure_count |-> IF data.success_rate[1] > 0 THEN RestoredFailures(data.success_rate)
                       ELSE 0,
     is_working |-> TRUE,
     response_time |-> data.response_time]

\* load_working_proxies: self.proxies = loaded_proxies.  The objects of the
\* old list are unreachable afterwards, so the new objects take the
\* identities 1..n.  (When the file cannot be read the pool is unchanged.)
LoadWorkingProxies ==
    /\ Quiescent
    /\ maint < MaxMaint
    /\ maint' = maint + 1
    /\ \E proxy_data \in SeqsUpTo(SavedEntries, MaxProxies) :
          /\ proxies' = [i \in 1..Len(proxy_data) |-> i]
          /\ next_id' = Len(proxy_data) + 1
          /\ info' = [p \in ProxyIds |-> IF p <= Len(proxy_data) THEN LoadedProxy(proxy_data[p])
                                         ELSE FreshProxy]
          /\ recorded' = [p \in ProxyIds |->
                            info'[p].success_count + info'[p].failure_count]
    /\ recent' = <<>>
    /\ last_pick' = NoPick
    /\ last_probe' = NoProbe
    /\ ret' = NoRet
    /\ UNCHANGED <<rotation_strategy, current_index, usage_stats,
                   callerVars, attempts, fails, total_attempts, calls>>
    /\ UNCHANGED nonPoolVars

\* add_proxy: a new ProxyInfo is appended under the lock
AddProxy ==
    /\ Quiescent
    /\ next_id <= MaxProxies
    /\ proxies' = Append(proxies, next_id)
    /\ next_id' = next_id + 1
    /\ recent' = RecentAfter(proxies', info)
    /\ last_pick' = NoPick
    /\ last_probe' = NoProbe
    /\ ret' = NoRet
    /\ UNCHANGED <<info, rotation_strategy, current_index, usage_stats,
                   callerVars, attempts, fails, recorded, total_attempts, calls, maint>>
    /\ UNCHANGED nonPoolVars

\* ------------------------------------------- one caller at a time (Spec)
SeqCallers == {CHOOSE c \in Callers : \A d \in Callers : c <= d}

Next ==
    \/ \E c \in SeqCallers : MakeRequest(c)
    \/ \E c \in SeqCallers : SelectNone(c)
    \/ \E c \in SeqCallers : SelectProxy(c)
    \/ \E c \in SeqCallers : SelectRaises(c)
    \/ \E c \in SeqCallers : RetriesExhausted(c)
    \/ \E c \in SeqCallers : Request(c)
    \/ \E c \in SeqCallers : LoadCounter(c)
    \/ \E c \in SeqCallers : StoreCounter(c)
    \/ \E c \in SeqCallers : MarkAndRetry(c)
    \/ GetNextProxyNone
    \/ GetNextProxy
    \/ GetNextProxyRaises
    \/ TestProxy
    \/ TestAllProxies
    \/ CleanupFailedProxies
    \/ ResetProxyStats
    \/ LoadWorkingProxies
    \/ AddProxy

Spec == Init /\ [][Next]_vars

\* ------------------- rotation over a pool of MaxRotation (SpecRotation)
\* a round-robin pool: dispatches, direct selections and single probes
InitRotation ==
    /\ PoolOfSize(MaxRotation)
    /\ rotation_strategy = ROUND_ROBIN
    /\ BatchIdle
    /\ DiscIdle
    /\ QueryIdle
    /\ ExtractIdle
    /\ LateIdle

NextRotation ==
    \/ \E c \in SeqCallers : MakeRequest(c)
    \/ \E c \in SeqCallers : SelectNone(c)
    \/ \E c \in SeqCallers : SelectProxy(c)
    \/ \E c \in SeqCallers : RetriesExhausted(c)
    \/ \E c \in SeqCallers : Request(c)
    \/ \E c \in SeqCallers : LoadCounter(c)
    \/ \E c \in SeqCallers : StoreCounter(c)
    \/ \E c \in SeqCallers : MarkAndRetry(c)
    \/ GetNextProxyNone
    \/ GetNextProxy
    \/ TestProxy

SpecRotation == InitRotation /\ [][NextRotation]_vars

\* --------------------------- several callers inside make_request (SpecConc)
\* the run is cut off after MaxConcAttempts requests
ConcMakeRequest(c) ==
    /\ total_attempts < MaxConcAttempts
    /\ MakeRequest(c)

ConcRequest(c) ==
    /\ total_attempts < MaxConcAttempts
    /\ Request(c)

NextConc ==
    \/ \E c \in Callers : ConcMakeRequest(c)
    \/ \E c \in Callers : SelectNone(c)
    \/ \E c \in Callers : SelectProxy(c)
    \/ \E c \in Callers : SelectRaises(c)
    \/ \E c \in Callers : RetriesExhausted(c)
    \/ \E c \in Callers : ConcRequest(c)
    \/ \E c \in Callers : LoadCounter(c)
    \/ \E c \in Callers : StoreCounter(c)
    \/ \E c \in Callers : MarkAndRetry(c)

SpecConc == Init /\ [][NextConc]_vars

\* =========================================================================
\* WebScraper.scrape_url and the tiered extraction (scraper.py)
\* =========================================================================
\* representative inputs; validators.url accepts the first two
URLs == {"https://a.example", "https://b.example", "not a url"}

\* variant: no validation
validators_url_AcceptAll(url) == TRUE

\* the strings validators.url rejects: free text, with or without a scheme
\* put in front, and a host without scheme
InvalidURLs == {"not a url", "https://not a url", "b.example"}

validators_url(url) == url \notin InvalidURLs

Levels == {"basic", "medium", "advanced"}
RequestedLevels == Levels \cup {"bogus"}

BasicFields == {"url", "company_name", "website_url", "email", "phone", "extraction_level"}
MediumFields == {"social_media", "address", "description", "year_founded",
                 "industry", "services"}
AdvancedFields == {"tech_stack", "current_projects", "competitors", "market_position",
                   "company_size", "funding_info", "news_mentions"}

MaxContactPages == 2     \* contact_urls[:2]

\* contact pages followed by the medium tier: none, or as many as the cap allows
ContactPageCounts == {0, MaxContactPages}

\* what the network and the page do to one scrape_url call: whether the
\* fetch of the basic, medium and advanced tier succeeds, how many contact
\* pages the medium tier follows, and whether a heuristic raises
FetchPlans == [f1 : BOOLEAN, f2 : BOOLEAN, f3 : BOOLEAN,
               nc : ContactPageCounts, exc : BOOLEAN]

\* a dictionary: its keys, and the values the batch code looks at
ErrorRecord(reason) ==
    [keys |-> {"error"}, error |-> reason, url |-> "", extraction_level |-> ""]

HasError(rec) == "error" \in rec.keys

\* variant: a failed fetch yields a partial record next to the error
extract_basic_data_PartialOnFailure(url, fx) ==
    IF ~fx.f1
    THEN [keys |-> {"error", "url", "website_url"}, error |-> "Failed to fetch page content",
          url |-> url, extraction_level |-> ""]
    ELSE [keys |-> BasicFields, error |-> "", url |-> url, extraction_level |-> "basic"]

extract_basic_data(url, fx) ==
    IF ~fx.f1
    THEN ErrorRecord("Failed to fetch page content")
    ELSE [keys |-> BasicFields, error |-> "", url |-> url, extraction_level |-> "basic"]

extract_medium_data(url, fx) ==
    LET data == extract_basic_data(url, fx)
    IN  IF HasError(data) THEN data
        ELSE IF ~fx.f2 THEN data
        ELSE [data EXCEPT !.keys = @ \cup MediumFields, !.extraction_level = "medium"]

extract_advanced_data(url, fx) ==
    LET data == extract_medium_data(url, fx)
    IN  IF HasError(data) THEN data
        ELSE IF ~fx.f3 THEN data
        ELSE [data EXCEPT !.keys = @ \cup AdvancedFields, !.extraction_level = "advanced"]

\* the page fetches each tier makes
BasicFetches(fx) == 1
MediumFetches(fx) ==
    BasicFetches(fx) + (IF fx.f1 THEN 1 + (IF fx.f2 THEN fx.nc ELSE 0) ELSE 0)
AdvancedFetches(fx) == MediumFetches(fx) + (IF fx.f1 THEN 1 ELSE 0)

scrape_url(url, level, fx) ==
    IF ~validators_url(url) THEN ErrorRecord("Invalid URL")
    ELSE IF level \notin Levels THEN ErrorRecord("Invalid extraction level")
    ELSE IF fx.f1 /\ fx.exc THEN ErrorRecord("exception")
    ELSE IF level = "basic" THEN extract_basic_data(url, fx)
    ELSE IF level = "medium" THEN extract_medium_data(url, fx)
    ELSE extract_advanced_data(url, fx)

ScrapeFetches(url, level, fx) ==
    IF ~validators_url(url) THEN 0
    ELSE IF level \notin Levels THEN 0
    ELSE IF level = "basic" THEN BasicFetches(fx)
    ELSE IF level = "medium" THEN MediumFetches(fx)
    ELSE AdvancedFetches(fx)

\* history: scrape_url(url, level) has just returned rec; of the fetch plan
\* fx the record holds the outcomes of the fetches that were made
ScrapeRecord(url, level, fx, rec) ==
    LET fetched1 == validators_url(url) /\ level \in Levels
        fetched2 == fetched1 /\ fx.f1 /\ level \in {"medium", "advanced"}
        fetched3 == fetched1 /\ fx.f1 /\ level = "advanced"
    IN  [called |-> TRUE, url |-> url, level |-> level,
         f1 |-> fetched1 /\ fx.f1, f2 |-> fetched2 /\ fx.f2, f3 |-> fetched3 /\ fx.f3,
         exc |-> fetched1 /\ fx.f1 /\ fx.exc,
         keys |-> rec.keys, extraction_level |-> rec.extraction_level]

\* =========================================================================
\* WebScrapingTool.scrape_from_urls (main.py)
\* =========================================================================
BatchInit ==
    /\ mode \in {"scrape_from_urls", "scrape_multiple_urls"}
    /\ urls \in SeqsUpTo(URLs, MaxBatch)
    /\ extraction_level \in RequestedLevels
    /\ b_pc = "loop"
    /\ next_item = 1
    /\ results = <<>>
    /\ failed_urls = <<>>
    /\ b_ret = [kind |-> "none"]
    /\ scrape_log = <<>>
    /\ net_calls = <<>>
    /\ last_scrape = NoScrape

\* what can interrupt one pass of the loop body before scrape_url has
\* returned: nothing, an Exception, or a KeyboardInterrupt
Interruptions == {"none", "exception", "interrupt"}

\* variant: the loop body has no except clause
CaughtByLoop_NoHandler(kind) == FALSE

\* except Exception as e
CaughtByLoop(kind) == kind = "exception"

\* variant: results.insert(0, result)
AppendResult_AtFront(rs, entry) == <<entry>> \o rs

\* results.append(result)
AppendResult(rs, entry) == Append(rs, entry)

\* failed_urls.append({"url": url, "error": ...})
AppendFailed(fs, entry) == Append(fs, entry)

FailedEntry(url, reason, k) == [url |-> url, error |-> reason, item |-> k]

\* a dictionary returned by scrape_url, as an element of results
ResultEntry(rec, k) ==
    [keys |-> rec.keys, error |-> rec.error, url |-> rec.url,
     extraction_level |-> rec.extraction_level, item |-> k]

\* history: item k with URL url was taken up; returned tells whether
\* scrape_url returned for it
LogEntry(k, url, returned) == [item |-> k, url |-> url, returned |-> returned]

\* one pass of "for i, url in enumerate(urls)"; the item field of an entry
\* is history: the position of its URL in the submitted list
ScrapeItem ==
    /\ mode = "scrape_from_urls"
    /\ b_pc = "loop"
    /\ next_item <= Len(urls)
    /\ LET url == urls[next_item] IN
       \E boom \in Interruptions : \E fx \in FetchPlans :
          IF boom = "none"
          THEN LET result == scrape_url(url, extraction_level, fx) IN
               /\ IF HasError(result)
                  THEN /\ failed_urls' = AppendFailed(failed_urls,
                                             FailedEntry(url, result.error, next_item))
                       /\ results' = results
                  ELSE /\ results' = AppendResult(results, ResultEntry(result, next_item))
                       /\ failed_urls' = failed_urls
               /\ scrape_log' = Append(scrape_log, LogEntry(next_item, url, TRUE))
               /\ net_calls' = Append(net_calls, ScrapeFetches(url, extraction_level, fx))
               /\ last_scrape' = ScrapeRecord(url, extraction_level, fx, result)
               /\ next_item' = next_item + 1
               /\ UNCHANGED <<b_pc, b_ret>>
          ELSE IF CaughtByLoop(boom)
          THEN /\ failed_urls' = AppendFailed(failed_urls,
                                     FailedEntry(url, "exception", next_item))
               /\ scrape_log' = Append(scrape_log, LogEntry(next_item, url, FALSE))
               /\ net_calls' = Append(net_calls, 0)
               /\ last_scrape' = NoScrape
               /\ next_item' = next_item + 1
               /\ UNCHANGED <<results, b_pc, b_ret>>
          ELSE /\ b_pc' = "raised"
               /\ b_ret' = [kind |-> "raised", by |-> IF boom = "interrupt" THEN "interrupt"
                                                       ELSE "item"]
               /\ last_scrape' = NoScrape
               /\ UNCHANGED <<results, failed_urls, scrape_log, net_calls, next_item>>
    /\ UNCHANGED <<mode, urls, extraction_level>>
    /\ UNCHANGED nonBatchVars

\* variant: the save branch is taken whatever results holds
HasResults_Always(rs) == TRUE

\* if results:
HasResults(rs) == rs # <<>>

\* after the loop: "if results:" save and report success, else report failure
FinishBatch ==
    /\ mode = "scrape_from_urls"
    /\ b_pc = "loop"
    /\ next_item > Len(urls)
    /\ IF HasResults(results)
       THEN \E saved \in BOOLEAN :
              IF saved
              THEN /\ b_pc' = "returned"
                   /\ b_ret' = [kind |-> "dict", success |-> TRUE,
                                results |-> results, failed_urls |-> failed_urls,
                                saved |-> TRUE, has_results_key |-> TRUE]
              ELSE /\ b_pc' = "raised"
                   /\ b_ret' = [kind |-> "raised", by |-> "save"]
       ELSE /\ b_pc' = "returned"
            /\ b_ret' = [kind |-> "dict", success |-> FALSE,
                         results |-> <<>>, failed_urls |-> failed_urls,
                         saved |-> FALSE, has_results_key |-> FALSE]
    /\ last_scrape' = NoScrape
    /\ UNCHANGED <<mode, urls, extraction_level, next_item, results, failed_urls,
                   scrape_log, net_calls>>
    /\ UNCHANGED nonBatchVars

\* WebScraper.scrape_multiple_urls: one pass of "for url in urls"
ScrapeMultipleItem ==
    /\ mode = "scrape_multiple_urls"
    /\ b_pc = "loop"
    /\ next_item <= Len(urls)
    /\ LET url == urls[next_item] IN
       \E fx \in FetchPlans :
          LET result == scrape_url(url, extraction_level, fx) IN
          /\ results' = AppendResult(results, ResultEntry(result, next_item))
          /\ net_calls' = Append(net_calls, ScrapeFetches(url, extraction_level, fx))
          /\ scrape_log' = Append(scrape_log, LogEntry(next_item, url, TRUE))
          /\ last_scrape' = ScrapeRecord(url, extraction_level, fx, result)
    /\ next_item' = next_item + 1
    /\ UNCHANGED <<mode, urls, extraction_level, b_pc, failed_urls, b_ret>>
    /\ UNCHANGED nonBatchVars

FinishMultiple ==
    /\ mode = "scrape_multiple_urls"
    /\ b_pc = "loop"
    /\ next_item > Len(urls)
    /\ b_pc' = "returned"
    /\ b_ret' = [kind |-> "list", results |-> results]
    /\ last_scrape' = NoScrape
    /\ UNCHANGED <<mode, urls, extraction_level, next_item, results, failed_urls,
                   scrape_log, net_calls>>
    /\ UNCHANGED nonBatchVars

PoolUnused ==
    /\ proxies = <<>>
    /\ next_id = 1
    /\ info = [p \in ProxyIds |-> FreshProxy]
    /\ rotation_strategy = ROUND_ROBIN
    /\ current_index = 0
    /\ usage_stats = ZeroStats
    /\ pc = [c \in Callers |-> "idle"]
    /\ retry_count = [c \in Callers |-> 0]
    /\ proxy = [c \in Callers |-> 0]
    /\ kwargs_proxies = [c \in Callers |-> 0]
    /\ outcome = [c \in Callers |-> "none"]
    /\ step = [c \in Callers |-> 0]
    /\ tmp = [c \in Callers |-> 0]
    /\ attempts = [c \in Callers |-> 0]
    /\ fails = [c \in Callers |-> 0]
    /\ recorded = [p \in ProxyIds |-> 0]
    /\ total_attempts = 0
    /\ last_pick = NoPick
    /\ last_probe = NoProbe
    /\ ret = NoRet
    /\ recent = <<>>
    /\ calls = 0
    /\ maint = 0

InitBatch ==
    BatchInit /\ PoolUnused /\ DiscIdle /\ QueryIdle /\ ExtractIdle /\ LateIdle

NextBatch ==
    \/ ScrapeItem
    \/ FinishBatch
    \/ ScrapeMultipleItem
    \/ FinishMultiple

SpecBatch == InitBatch /\ [][NextBatch]_vars

\* =========================================================================
\* SearchDiscovery and ImprovedSearchDiscovery (search_discovery.py,
\* search_discovery_improved.py)
\* =========================================================================
DiscoveryKinds == {"SearchDiscovery", "ImprovedSearchDiscovery"}

\* representative URLs: two company sites, free text, a social network, a
\* careers page, a blog platform host, and a host written without scheme
DiscoveryURLs == {"https://a.example", "https://b.example", "not a url",
                  "https://facebook.com/acme", "https://a.example/careers",
                  "https://acme.blogspot.com", "b.example"}

\* self.sample_companies: the first four URLs of every category (the code
\* reads urls[:4] and urls[:2] only)
Categories == <<"cloud computing", "ai", "fintech", "saas">>

sample_companies(category) ==
    IF category = "cloud computing"
    THEN <<"https://aws.amazon.com", "https://cloud.google.com",
           "https://azure.microsoft.com", "https://www.digitalocean.com">>
    ELSE IF category = "ai"
    THEN <<"https://openai.com", "https://www.anthropic.com",
           "https://stability.ai", "https://www.midjourney.com">>
    ELSE IF category = "fintech"
    THEN <<"https://stripe.com", "https://square.com",
           "https://www.paypal.com", "https://www.coinbase.com">>
    ELSE <<"https://slack.com", "https://zoom.us",
           "https://www.salesforce.com", "https://www.hubspot.com">>

\* exclude_regex.search(url): facebook\.com and google\.com are patterns of
\* both classes; SearchDiscovery has amazon\.com, ImprovedSearchDiscovery
\* has amazon\.com/(?!s3), which a URL ending in amazon.com does not match
ExcludedByPattern(kind, url) ==
    \/ url \in {"https://facebook.com/acme", "https://cloud.google.com"}
    \/ kind = "SearchDiscovery" /\ url = "https://aws.amazon.com"

\* any(platform in domain for platform in ['blogspot', ...])
PlatformDomain(url) == url = "https://acme.blogspot.com"

\* any(path in parsed.path.lower() for path in ['/jobs', '/careers', ...]):
\* a test of SearchDiscovery only
NonRootPath(kind, url) == kind = "SearchDiscovery" /\ url = "https://a.example/careers"

\* ImprovedSearchDiscovery: if not url.startswith(('http://', 'https://')):
\* url = 'https://' + url
FixedUrl(kind, url) ==
    IF kind = "ImprovedSearchDiscovery" /\ url = "b.example" THEN "https://b.example"
    ELSE IF kind = "ImprovedSearchDiscovery" /\ url = "not a url" THEN "https://not a url"
    ELSE url

\* variant: the session set is not consulted
SeenBefore_Never(url, seen) == FALSE

\* if url in self.discovered_urls: continue
SeenBefore(url, seen) == url \in seen

\* one URL passes every test of the loop body
Kept(kind, url, seen) ==
    /\ validators_url(url)
    /\ ~ExcludedByPattern(kind, url)
    /\ ~SeenBefore(url, seen)
    /\ ~PlatformDomain(url)
    /\ ~NonRootPath(kind, url)

\* the loop of _filter_company_urls from position i on; acc holds
\* filtered_urls (out) and self.discovered_urls (seen)
RECURSIVE FilterFrom(_, _, _, _)
FilterFrom(kind, us, i, acc) ==
    IF i > Len(us) THEN acc
    ELSE LET url == FixedUrl(kind, us[i])
         IN  IF Kept(kind, url, acc.seen)
             THEN FilterFrom(kind, us, i + 1,
                             [out |-> Append(acc.out, url), seen |-> acc.seen \cup {url}])
             ELSE FilterFrom(kind, us, i + 1, acc)

filter_company_urls(kind, us, seen) == FilterFrom(kind, us, 1, [out |-> <<>>, seen |-> seen])

\* list(dict.fromkeys(all_urls)): the first occurrence of every element
RECURSIVE Dedup(_)
Dedup(us) ==
    IF us = <<>> THEN <<>>
    ELSE LET front == Dedup(SubSeq(us, 1, Len(us) - 1))
             x == us[Len(us)]
         IN  IF \E i \in 1..Len(front) : front[i] = x THEN front ELSE Append(front, x)

\* us[:n]
Take(us, n) == IF n >= Len(us) THEN us ELSE SubSeq(us, 1, n)

\* representative queries, the categories whose keywords they contain (as
\* substrings: "retail" contains "ai"), and whether they contain one of the
\* words that switch on the GitHub strategy ("fintech" contains "tech")
Queries == {"fintech startups", "cloud computing startups", "retail chains",
            "saas companies", "bakery shops"}

MatchingCategories(query) ==
    SelectSeq(Categories, LAMBDA c :
        \/ c = "fintech" /\ query = "fintech startups"
        \/ c = "cloud computing" /\ query = "cloud computing startups"
        \/ c = "ai" /\ query = "retail chains"
        \/ c = "saas" /\ query = "saas companies")

HasTechWord(query) ==
    query \in {"fintech startups", "cloud computing startups", "retail chains"}

RECURSIVE Concat(_, _)
Concat(cats, n) ==
    IF cats = <<>> THEN <<>>
    ELSE Take(sample_companies(Head(cats)), n) \o Concat(Tail(cats), n)

\* _get_sample_companies: four URLs of every matching category, or two of
\* every category when none matches
get_sample_companies(query) ==
    IF MatchingCategories(query) # <<>>
    THEN Concat(MatchingCategories(query), 4)
    ELSE Concat(Categories, 2)

\* what the network-backed strategies can contribute
NetURLs == {"https://a.example", "https://stripe.com", "https://facebook.com/acme"}

ResultLimits == {0, 1, 2, 4}     \* values of max_results
QueryLimits == {0, 1, 2}         \* values of --max-results of the search command

\* _search_engines: two query variants, each asking DuckDuckGo and Bing
\* for max_results // 4 URLs
SearchEngineResults(max_results) ==
    {us \in SeqsUpTo(NetURLs, MaxNet) : Len(us) <= 4 * (max_results \div 4)}

\* _search_github_orgs: validated blog URLs of organisations
GithubResults(query) ==
    IF HasTechWord(query)
    THEN {us \in SeqsUpTo(NetURLs, MaxNet) : \A i \in 1..Len(us) : validators_url(us[i])}
    ELSE {<<>>}

\* _search_directories: the three directory strategies append nothing
DirectoryResults == <<>>

\* the strategies search_companies calls, in the order of the calls; the
\* GitHub strategy is called for queries with a tech word only
StrategiesQueried(query) ==
    <<"curated", "search_engines", "directories">>
    \o (IF HasTechWord(query) THEN <<"github">> ELSE <<>>)

\* ImprovedSearchDiscovery.search_companies with the lists the network
\* strategies returned
search_companies(query, max_results, search_urls, github_urls, seen) ==
    LET all_urls == get_sample_companies(query) \o search_urls \o DirectoryResults
                    \o github_urls
        filtered == filter_company_urls("ImprovedSearchDiscovery", Dedup(all_urls), seen)
    IN  [out |-> Take(filtered.out, max_results), seen |-> filtered.seen]

CallRecord(op, input, res, query, max_results) ==
    [op |-> op, input |-> input, output |-> res.out,
     fresh |-> discovered_urls = {},
     had_prev |-> d_last.op = op, prev_out |-> d_last.output,
     query |-> query, max_results |-> max_results, queried |-> <<>>]

\* the orders in which list(set) can yield the elements of S
Orderings(S) ==
    {us \in SeqsUpTo(S, Cardinality(S)) :
        Len(us) = Cardinality(S) /\ \A x \in S : \E i \in 1..Len(us) : us[i] = x}

Elements(us) == {us[i] : i \in 1..Len(us)}

\* SearchDiscovery.search_and_discover with two engines: raw1 and raw2 are
\* the URLs extracted from the result pages of the engines, related those
\* found on the seed pages, additional the list discover_from_seed_urls makes
\* of its set.  Every _search_<engine> and _extract_related_company_urls
\* returns its list through _filter_company_urls, and so does the last step.
SeedSet(raw1, raw2, related, max_results, seen) ==
    LET r1 == filter_company_urls("SearchDiscovery", Take(raw1, max_results \div 2), seen)
        r2 == filter_company_urls("SearchDiscovery", Take(raw2, max_results \div 2), r1.seen)
        unique_urls == Dedup(r1.out \o r2.out)
        rel == filter_company_urls("SearchDiscovery", related, r2.seen)
    IN  IF unique_urls = <<>> THEN {}
        ELSE Elements(Take(unique_urls, 5)) \cup Elements(rel.out)

search_and_discover(raw1, raw2, related, additional, max_results, seen) ==
    LET r1 == filter_company_urls("SearchDiscovery", Take(raw1, max_results \div 2), seen)
        r2 == filter_company_urls("SearchDiscovery", Take(raw2, max_results \div 2), r1.seen)
        unique_urls == Dedup(r1.out \o r2.out)
        rel == IF unique_urls = <<>> THEN [out |-> <<>>, seen |-> r2.seen]
               ELSE filter_company_urls("SearchDiscovery", related, r2.seen)
        final == filter_company_urls("SearchDiscovery", unique_urls \o additional, rel.seen)
    IN  [out |-> Take(final.out, max_results), seen |-> final.seen]

\* a call of SearchDiscovery.search_and_discover on the instance; the input
\* of the record holds the URLs the two engines contributed
SearchAndDiscoverCall ==
    /\ d_kind = "SearchDiscovery"
    /\ d_calls < MaxDiscoveryCalls
    /\ \E max_results \in ResultLimits :
       \E raw1 \in SeqsUpTo(DiscoveryURLs, MaxNet) :
       \E raw2 \in SeqsUpTo(DiscoveryURLs, MaxNet) :
       \E related \in SeqsUpTo(DiscoveryURLs, MaxNet) :
       \E additional \in Orderings(SeedSet(raw1, raw2, related, max_results,
                                            discovered_urls)) :
          LET res == search_and_discover(raw1, raw2, related, additional,
                                         max_results, discovered_urls)
              contributed == Take(raw1, max_results \div 2) \o Take(raw2, max_results \div 2)
          IN  /\ discovered_urls' = res.seen
              /\ d_last' = CallRecord("search_and_discover", contributed, res, "",
                                      max_results)
    /\ d_calls' = d_calls + 1
    /\ UNCHANGED d_kind
    /\ UNCHANGED nonDiscVars

\* a call of _filter_company_urls on the instance
FilterCall ==
    /\ d_calls < MaxDiscoveryCalls
    /\ \E us \in SeqsUpTo(DiscoveryURLs, MaxList) :
          LET res == filter_company_urls(d_kind, us, discovered_urls) IN
          /\ discovered_urls' = res.seen
          /\ d_last' = CallRecord("filter", us, res, "", 0)
    /\ d_calls' = d_calls + 1
    /\ UNCHANGED d_kind
    /\ UNCHANGED nonDiscVars

\* a call of ImprovedSearchDiscovery.search_companies on the instance
SearchCompaniesCall ==
    /\ d_kind = "ImprovedSearchDiscovery"
    /\ d_calls < MaxDiscoveryCalls
    /\ \E query \in Queries : \E max_results \in ResultLimits :
       \E search_urls \in SearchEngineResults(max_results) :
       \E github_urls \in GithubResults(query) :
          LET res == search_companies(query, max_results, search_urls, github_urls,
                                      discovered_urls) IN
          /\ discovered_urls' = res.seen
          /\ d_last' = [CallRecord("search", <<>>, res, query, max_results)
                            EXCEPT !.queried = StrategiesQueried(query)]
    /\ d_calls' = d_calls + 1
    /\ UNCHANGED d_kind
    /\ UNCHANGED nonDiscVars

InitDiscovery ==
    /\ d_kind \in DiscoveryKinds
    /\ discovered_urls = {}
    /\ d_last = NoCall
    /\ d_calls = 0
    /\ PoolUnused
    /\ BatchIdle
    /\ QueryIdle
    /\ ExtractIdle
    /\ LateIdle

NextDiscovery ==
    \/ FilterCall
    \/ SearchCompaniesCall
    \/ SearchAndDiscoverCall

SpecDiscovery == InitDiscovery /\ [][NextDiscovery]_vars

\* =========================================================================
\* The search command: WebScrapingTool.scrape_from_query and close (main.py)
\* =========================================================================
\* how a discovery call can end: it returns, raises an Exception, or is
\* interrupted (KeyboardInterrupt is no Exception)
CallEndings == {"returns", "exception", "interrupt"}

\* variant: the fallback is never tried
NoUrls_Never(us) == FALSE

\* if not urls:
NoUrls(us) == us = <<>>

Found(us) == IF us = <<>> THEN "zero" ELSE "found"

\* lines 51-62: the primary discovery and the test that follows it
PrimaryDiscovery ==
    /\ q_pc = "primary"
    /\ \E ending \in CallEndings :
       \E raw1 \in SeqsUpTo(DiscoveryURLs, MaxNet) :
       \E raw2 \in SeqsUpTo(DiscoveryURLs, MaxNet) :
       \E related \in SeqsUpTo(DiscoveryURLs, MaxNet) :
       \E additional \in Orderings(SeedSet(raw1, raw2, related, q_in.max_results,
                                            discovered_urls)) :
          LET res == search_and_discover(raw1, raw2, related, additional,
                                         q_in.max_results, discovered_urls)
              found == IF ending = "returns" THEN res.out ELSE <<>>
          IN  /\ discovered_urls' = res.seen
              /\ q_urls' = found
              /\ q_hist' = [q_hist EXCEPT
                              !.primary = IF ending = "returns" THEN Found(res.out)
                                          ELSE IF ending = "exception" THEN "failed"
                                          ELSE "interrupted",
                              !.ret = IF ending = "interrupt" THEN "interrupted" ELSE @]
              /\ q_pc' = IF ending = "interrupt" THEN "close"
                         ELSE IF NoUrls(found) THEN "secondary"
                         ELSE "decide"
    /\ UNCHANGED <<q_in, resources, d_kind, d_last, d_calls>>
    /\ UNCHANGED batchVars
    /\ UNCHANGED nonQueryVars

\* lines 63-74: a fresh ImprovedSearchDiscovery, search_companies, close();
\* close() is skipped when search_companies does not return
SecondaryDiscovery ==
    /\ q_pc = "secondary"
    /\ \E ending \in CallEndings :
       \E search_urls \in SearchEngineResults(q_in.max_results) :
       \E github_urls \in GithubResults(q_in.query) :
          LET res == search_companies(q_in.query, q_in.max_results, search_urls,
                                      github_urls, {})
              found == IF ending = "returns" THEN res.out ELSE <<>>
          IN  /\ q_urls' = found
              /\ resources' = [resources EXCEPT !["improved.session"] =
                                  IF ending = "returns" THEN "closed" ELSE "open"]
              /\ q_hist' = [q_hist EXCEPT
                              !.secondary = IF ending = "returns" THEN Found(res.out)
                                            ELSE IF ending = "exception" THEN "failed"
                                            ELSE "interrupted",
                              !.ret = IF ending = "interrupt" THEN "interrupted" ELSE @]
              /\ q_pc' = IF ending = "interrupt" THEN "close" ELSE "decide"
    /\ UNCHANGED <<q_in, discVars>>
    /\ UNCHANGED batchVars
    /\ UNCHANGED nonQueryVars

\* lines 76-89: return "No companies found", or enter scrape_from_urls
Decide ==
    /\ q_pc = "decide"
    /\ IF NoUrls(q_urls)
       THEN /\ q_hist' = [q_hist EXCEPT !.ret = "no_companies"]
            /\ q_pc' = "close"
            /\ UNCHANGED batchVars
       ELSE /\ q_pc' = "scrape"
            /\ mode' = "scrape_from_urls"
            /\ urls' = q_urls
            /\ extraction_level' = q_in.level
            /\ b_pc' = "loop"
            /\ UNCHANGED <<q_hist, next_item, results, failed_urls, b_ret, scrape_log,
                           net_calls, last_scrape>>
    /\ UNCHANGED <<q_in, q_urls, resources, discVars>>
    /\ UNCHANGED nonQueryVars

\* WebScraper.close: "if self.driver: self.driver.quit()", then
\* self.session.close().  quit_fails tells whether quit() raises; the
\* result holds the resources afterwards and whether close raised.
ScraperClose(res, driver, session, quit_fails) ==
    IF res[driver] = "open" /\ quit_fails
    THEN [res |-> [res EXCEPT ![driver] = "quit_failed"], raised |-> TRUE]
    ELSE [res |-> [res EXCEPT ![driver] = IF @ = "open" THEN "closed" ELSE @,
                              ![session] = "closed"],
          raised |-> FALSE]

\* WebScrapingTool.close: self.scraper.close(); self.search_discovery.close()
ToolClose(res, fails1, fails2) ==
    LET first == ScraperClose(res, "scraper.driver", "scraper.session", fails1)
    IN  IF first.raised THEN first
        ELSE ScraperClose(first.res, "discovery.driver", "discovery.session", fails2)

\* the command's "finally: tool.close()", reached when scrape_from_query
\* has returned or raised
Close ==
    /\ \/ q_pc = "close"
       \/ q_pc = "scrape" /\ b_pc \in {"returned", "raised"}
    /\ \E fails1, fails2 \in BOOLEAN :
          LET closed == ToolClose(resources, fails1, fails2) IN
          /\ resources' = closed.res
          /\ q_hist' = [q_hist EXCEPT
                          !.close = IF closed.raised THEN "raised" ELSE "ok",
                          !.ret = IF q_pc = "scrape" THEN b_pc ELSE @]
    /\ q_pc' = "done"
    /\ UNCHANGED <<q_in, q_urls, discVars>>
    /\ UNCHANGED batchVars
    /\ UNCHANGED nonQueryVars

\* the command line has been read and the tool constructed: each WebScraper
\* has a session, and a driver when Selenium is on and could be started
InitQuery ==
    /\ q_pc = "primary"
    /\ q_in \in [query : Queries, max_results : QueryLimits, level : Levels]
    /\ q_urls = <<>>
    /\ q_hist = NoHistory
    /\ resources \in {r \in [ResourceNames -> {"absent", "open"}] :
                         /\ r["scraper.session"] = "open"
                         /\ r["discovery.session"] = "open"
                         /\ r["improved.session"] = "absent"}
    /\ DiscIdle
    /\ BatchIdle
    /\ PoolUnused
    /\ ExtractIdle
    /\ LateIdle

NextQuery ==
    \/ PrimaryDiscovery
    \/ SecondaryDiscovery
    \/ Decide
    \/ ScrapeItem
    \/ FinishBatch
    \/ Close

SpecQuery == InitQuery /\ [][NextQuery]_vars

\* =========================================================================
\* One scrape_url call with the values it extracts (scraper.py)
\* =========================================================================
\* what a fetched page holds: the valid e-mail addresses and the phone
\* numbers its links and text yield, the text of the first element matching
\* an address selector ("none": no element), whether its visible text holds
\* "123 Main Street", and its description ("": neither a description
\* element nor a paragraph of more than 50 characters)
Emails == {"info@a.example", "sales@a.example"}
Phones == {"+1 555 010 9999"}
Pages == [emails : SUBSET Emails, phones : SUBSET Phones,
          address_element : {"none", "1 Side Road"},
          address_text : BOOLEAN, description : {"", "We build things"}]

\* variant: no pattern search in the text
extract_address_SelectorsOnly(page) ==
    IF page.address_element # "none" THEN page.address_element ELSE ""

\* _extract_address: the first selector hit, else the first match of an
\* address pattern in the text, else ""
extract_address(page) ==
    IF page.address_element # "none" THEN page.address_element
    ELSE IF page.address_text THEN "123 Main Street"
    ELSE ""

\* extract_basic_data on a fetched page
BasicData(page) ==
    [keys |-> BasicFields, email |-> page.emails, phone |-> page.phones,
     address |-> "", description |-> "", extraction_level |-> "basic"]

\* extract_medium_data: data.update({...}) on a fetched page
MediumUpdate(data, page) ==
    [data EXCEPT !.keys = @ \cup MediumFields,
                 !.address = extract_address(page),
                 !.description = page.description,
                 !.extraction_level = "medium"]

\* extract_advanced_data: data.update({...})
AdvancedUpdate(data) ==
    [data EXCEPT !.keys = @ \cup AdvancedFields, !.extraction_level = "advanced"]

\* variant: the values found on the contact page replace the existing ones
MergeFound_Replacing(existing, found) == IF found # {} THEN found ELSE existing

\* if emails: data['email'] = list(set(existing_emails + emails))
MergeFound(existing, found) == IF found # {} THEN existing \cup found ELSE existing

\* how _extract_contact_page_info can end: no page, everything merged, or
\* an exception in _extract_address after e-mails and phones were merged
ContactOutcomes == {"no_page", "merged", "address_raises"}

\* _extract_contact_page_info(contact_url, data)
MergeContact(data, page, ending) ==
    IF ending = "no_page" THEN data
    ELSE LET merged == [data EXCEPT !.email = MergeFound(@, page.emails),
                                    !.phone = MergeFound(@, page.phones)]
             address == extract_address(page)
         IN  IF ending = "address_raises" \/ data.address # "" \/ address = ""
             THEN merged
             ELSE [merged EXCEPT !.address = address, !.keys = @ \cup {"address"}]

\* _get_page_content(url, use_selenium=True) renders with the browser only
\* when self.driver exists; otherwise it fetches with requests
Rendered(selenium) == selenium = "started"

\* where the call goes after the medium tier
AfterMedium == IF x_in.level = "advanced" THEN "advanced" ELSE "done"

\* extract_basic_data: fetch, then the basic fields
ExtractBasic ==
    /\ x_pc = "basic"
    /\ \E ok \in BOOLEAN : \E page \in Pages :
          IF ok
          THEN /\ x_data' = BasicData(page)
               /\ x_hist' = [x_hist EXCEPT !.fetched = "basic", !.page = page]
               /\ x_pc' = IF x_in.level = "basic" THEN "done" ELSE "medium"
          ELSE /\ x_data' = [NoData EXCEPT !.keys = {"error"}]
               /\ x_hist' = x_hist
               /\ x_pc' = "done"
    /\ x_last' = NoStep
    /\ UNCHANGED <<x_in, x_left>>
    /\ UNCHANGED nonExtractVars

\* extract_medium_data after the basic tier: second fetch, the medium
\* fields, and the contact pages found on the page (contact_urls[:2])
ExtractMedium ==
    /\ x_pc = "medium"
    /\ \E ok \in BOOLEAN : \E page \in Pages : \E found \in 0..MaxContactPages :
          IF ok
          THEN /\ x_data' = MediumUpdate(x_data, page)
               /\ x_hist' = [x_hist EXCEPT !.fetched = "medium", !.page = page,
                                           !.medium_done = TRUE]
               /\ x_left' = found
               /\ x_pc' = IF found > 0 THEN "contact" ELSE AfterMedium
          ELSE /\ UNCHANGED <<x_data, x_hist, x_left>>
               /\ x_pc' = AfterMedium
    /\ x_last' = NoStep
    /\ UNCHANGED x_in
    /\ UNCHANGED nonExtractVars

\* one pass of "for contact_url in contact_urls[:2]"; the description of
\* a contact page is not read
ContactPage ==
    /\ x_pc = "contact"
    /\ \E ending \in ContactOutcomes : \E page \in {q \in Pages : q.description = ""} :
          /\ x_data' = MergeContact(x_data, page, ending)
          /\ x_last' = [op |-> "contact", outcome |-> ending, before |-> x_data]
    /\ x_left' = x_left - 1
    /\ x_pc' = IF x_left > 1 THEN "contact" ELSE AfterMedium
    /\ UNCHANGED <<x_in, x_hist>>
    /\ UNCHANGED nonExtractVars

\* extract_advanced_data after the medium tier: third fetch, asked to use
\* Selenium, then the advanced fields
ExtractAdvanced ==
    /\ x_pc = "advanced"
    /\ \E ok \in BOOLEAN :
          IF ok
          THEN /\ x_data' = AdvancedUpdate(x_data)
               /\ x_hist' = [x_hist EXCEPT !.rendered = Rendered(x_in.selenium)]
          ELSE UNCHANGED <<x_data, x_hist>>
    /\ x_pc' = "done"
    /\ x_last' = NoStep
    /\ UNCHANGED <<x_in, x_left>>
    /\ UNCHANGED nonExtractVars

\* WebScraper.__init__: Selenium is off, or its driver was started, or
\* _setup_selenium failed (use_selenium reset, no driver); scrape_url is
\* called with a valid URL and level
InitExtract ==
    /\ x_pc = "basic"
    /\ x_in \in [level : Levels, selenium : {"off", "started", "failed"}]
    /\ x_data = NoData
    /\ x_left = 0
    /\ x_hist = [fetched |-> "none", page |-> NoPage, medium_done |-> FALSE,
                 rendered |-> FALSE]
    /\ x_last = NoStep
    /\ PoolUnused
    /\ BatchIdle
    /\ DiscIdle
    /\ QueryIdle
    /\ LateIdle

NextExtract ==
    \/ ExtractBasic
    \/ ExtractMedium
    \/ ContactPage
    \/ ExtractAdvanced

SpecExtract == InitExtract /\ [][NextExtract]_vars

\* =========================================================================
\* WebScraper._extract_founded_year (scraper.py)
\* =========================================================================
\* year_patterns: founded in, since, established in, (c), copyright
NumYearPatterns == 5

\* the first match of one pattern in the page text as int(matches[0])
\* (0: the pattern matches nowhere); \d{4} cannot make int() fail
MatchedYears == {0, 1899, 1900, 2024, 2025, 2027}

\* the calendar year in which the page is scraped
CalendarYears == {2024, 2026}

\* for pattern in year_patterns: the first match of the first pattern
\* whose first match lies in 1900..2024 (0 stands for None)
RECURSIVE FoundedYearFrom(_, _)
FoundedYearFrom(matches, i) ==
    IF i > Len(matches) THEN 0
    ELSE IF matches[i] # 0 /\ 1900 <= matches[i] /\ matches[i] <= 2024
         THEN matches[i]
         ELSE FoundedYearFrom(matches, i + 1)

extract_founded_year(matches) == FoundedYearFrom(matches, 1)

\* a page is fetched in some calendar year
InitYear ==
    /\ fy \in [matches : [1..NumYearPatterns -> MatchedYears],
               this_year : CalendarYears, called : {FALSE}, year : {0}]
    /\ PoolUnused
    /\ BatchIdle
    /\ DiscIdle
    /\ QueryIdle
    /\ ExtractIdle
    /\ SchedIdle
    /\ DashIdle

\* "year_founded": self._extract_founded_year(soup)
ExtractFoundedYear ==
    /\ ~fy.called
    /\ fy' = [fy EXCEPT !.called = TRUE, !.year = extract_founded_year(fy.matches)]
    /\ UNCHANGED <<poolVars, callerVars, histVars, batchVars, discVars, queryVars,
                   extractVars, schedVars, dashVars>>

NextYear == ExtractFoundedYear

SpecYear == InitYear /\ [][NextYear]_vars

\* =========================================================================
\* JobScheduler (job_scheduler.py)
\* =========================================================================
\* The blocks under "with self.lock" are one step each; so is everything an
\* execution does between two of them.  pause_job, resume_job and cancel_job
\* are called from other threads and run between the steps of an execution.
\* A control call whose job the APScheduler store does not hold raises
\* JobLookupError, is caught, and changes nothing.

\* what scraping_config holds: a query, a list of URLs, or neither
ConfigKinds == {"query", "urls", "neither"}

\* schedule_job: ScheduledJob(..., status=JobStatus.SCHEDULED, ...)
NewJob(schedule_type, config) ==
    [schedule_type |-> schedule_type, scraping_config |-> config, status |-> SCHEDULED,
     run_count |-> 0, success_count |-> 0, failure_count |-> 0]

\* the other variables of an action on job j
SchedFrame ==
    UNCHANGED <<poolVars, callerVars, histVars, batchVars, discVars, queryVars,
                extractVars, yearVars, dashVars>>

\* schedule_job: the job is added to the scheduler and to scheduled_jobs
ScheduleJob ==
    /\ \E j \in JobIds : \E schedule_type \in {ONCE, INTERVAL} : \E config \in ConfigKinds :
          /\ j \notin DOMAIN scheduled_jobs
          /\ \A k \in 1..(j - 1) : k \in DOMAIN scheduled_jobs
          /\ scheduled_jobs' = [k \in DOMAIN scheduled_jobs \cup {j} |->
                                   IF k = j THEN NewJob(schedule_type, config)
                                   ELSE scheduled_jobs[k]]
          /\ scheduler' = [scheduler EXCEPT ![j] = "active"]
    /\ s_last' = NoExecution
    /\ UNCHANGED <<s_pc, s_run, job_history>>
    /\ SchedFrame

\* the trigger of job j fires (max_instances is 1) and a worker thread
\* enters _execute_scheduled_job: status RUNNING, run_count += 1.  The
\* DateTrigger of a ONCE job has no further run time and the scheduler
\* drops the job from its store when it submits the run.
BeginExecution(j) ==
    /\ j \in DOMAIN scheduled_jobs
    /\ scheduler[j] = "active"
    /\ s_pc[j] = "idle"
    /\ scheduled_jobs[j].run_count < MaxRuns
    /\ scheduled_jobs' = [scheduled_jobs EXCEPT ![j].status = RUNNING,
                                                ![j].run_count = @ + 1]
    /\ scheduler' = [scheduler EXCEPT
                        ![j] = IF scheduled_jobs[j].schedule_type = ONCE THEN "absent" ELSE @]
    /\ s_pc' = [s_pc EXCEPT ![j] = "scraping"]
    /\ s_run' = [s_run EXCEPT ![j] = NoRun]
    /\ s_last' = NoExecution
    /\ UNCHANGED job_history
    /\ SchedFrame

\* what tool.scrape_from_query / scrape_from_urls can do: return a result
\* with success True, return one without (no companies found, no data
\* scraped), or raise (save_data)
ScrapeEndings == {"success", "unsuccessful", "raises"}

\* tool = WebScrapingTool(...), then the scraping call the configuration
\* asks for, or ValueError when it names neither a query nor URLs
Scrape(j) ==
    /\ s_pc[j] = "scraping"
    /\ \E ending \in ScrapeEndings :
          IF scheduled_jobs[j].scraping_config = "neither" \/ ending = "raises"
          THEN /\ s_run' = [s_run EXCEPT ![j].tool = "open", ![j].raised = TRUE]
               /\ s_pc' = [s_pc EXCEPT ![j] = "except"]
          ELSE /\ s_run' = [s_run EXCEPT ![j].tool = "open", ![j].result = ending]
               /\ s_pc' = [s_pc EXCEPT ![j] = "update"]
    /\ s_last' = NoExecution
    /\ UNCHANGED <<scheduled_jobs, scheduler, job_history>>
    /\ SchedFrame

\* "Update job status based on result", then "For one-time jobs, mark as
\* completed"
StatusAfterResult(job, result) ==
    IF job.schedule_type = ONCE THEN COMPLETED
    ELSE IF result = "success" THEN COMPLETED ELSE FAILED

\* the block under the lock after the scraping call returned
UpdateFromResult(j) ==
    /\ s_pc[j] = "update"
    /\ LET job == scheduled_jobs[j]
           result == s_run[j].result
       IN  scheduled_jobs' = [scheduled_jobs EXCEPT
              ![j].status = StatusAfterResult(job, result),
              ![j].success_count = IF result = "success" THEN @ + 1 ELSE @,
              ![j].failure_count = IF result = "success" THEN @ ELSE @ + 1]
    /\ s_pc' = [s_pc EXCEPT ![j] = "close"]
    /\ s_last' = NoExecution
    /\ UNCHANGED <<scheduler, s_run, job_history>>
    /\ SchedFrame

\* tool.close(): returns, or raises (driver.quit(), session.close())
CloseTool(j) ==
    /\ s_pc[j] = "close"
    /\ \E ok \in BOOLEAN :
          IF ok
          THEN /\ s_run' = [s_run EXCEPT ![j].tool = "closed"]
               /\ s_pc' = [s_pc EXCEPT ![j] = "finally"]
          ELSE /\ s_run' = [s_run EXCEPT ![j].raised = TRUE]
               /\ s_pc' = [s_pc EXCEPT ![j] = "except"]
    /\ s_last' = NoExecution
    /\ UNCHANGED <<scheduled_jobs, scheduler, job_history>>
    /\ SchedFrame

\* except Exception: status FAILED, failure_count += 1
HandleException(j) ==
    /\ s_pc[j] = "except"
    /\ scheduled_jobs' = [scheduled_jobs EXCEPT ![j].status = FAILED,
                                                ![j].failure_count = @ + 1]
    /\ s_pc' = [s_pc EXCEPT ![j] = "finally"]
    /\ s_last' = NoExecution
    /\ UNCHANGED <<scheduler, s_run, job_history>>
    /\ SchedFrame

\* finally: "Reset status for recurring jobs"
ResetRecurring(j) ==
    /\ s_pc[j] = "finally"
    /\ scheduled_jobs' = [scheduled_jobs EXCEPT
          ![j].status = IF scheduled_jobs[j].schedule_type # ONCE /\ @ # FAILED
                        THEN SCHEDULED ELSE @]
    /\ s_pc' = [s_pc EXCEPT ![j] = "record"]
    /\ s_last' = NoExecution
    /\ UNCHANGED <<scheduler, s_run, job_history>>
    /\ SchedFrame

\* the execution record is appended to job_history (at most MaxJobs *
\* MaxRuns entries, far from the 1000 the list is cut to) and the
\* execution ends
RecordExecution(j) ==
    /\ s_pc[j] = "record"
    /\ job_history' = Append(job_history,
                             [job_id |-> j, status |-> scheduled_jobs[j].status,
                              run_number |-> scheduled_jobs[j].run_count])
    /\ s_last' = [finished |-> TRUE, job |-> j, result |-> s_run[j].result,
                  raised |-> s_run[j].raised, tool |-> s_run[j].tool,
                  interrupted |-> s_run[j].interrupted]
    /\ s_pc' = [s_pc EXCEPT ![j] = "idle"]
    /\ s_run' = [s_run EXCEPT ![j] = NoRun]
    /\ UNCHANGED <<scheduled_jobs, scheduler>>
    /\ SchedFrame

\* history: the control call that reached job j during its execution
Interrupted(j, status) ==
    [s_run EXCEPT ![j].interrupted = IF s_pc[j] = "idle" THEN @ ELSE status]

\* pause_job on a job the store holds
PauseJob(j) ==
    /\ j \in DOMAIN scheduled_jobs
    /\ scheduler[j] # "absent"
    /\ scheduler' = [scheduler EXCEPT ![j] = "paused"]
    /\ scheduled_jobs' = [scheduled_jobs EXCEPT ![j].status = PAUSED]
    /\ s_run' = Interrupted(j, PAUSED)
    /\ s_last' = NoExecution
    /\ UNCHANGED <<s_pc, job_history>>
    /\ SchedFrame

\* resume_job on a job the store holds
ResumeJob(j) ==
    /\ j \in DOMAIN scheduled_jobs
    /\ scheduler[j] # "absent"
    /\ scheduler' = [scheduler EXCEPT ![j] = "active"]
    /\ scheduled_jobs' = [scheduled_jobs EXCEPT ![j].status = SCHEDULED]
    /\ s_run' = Interrupted(j, "none")
    /\ s_last' = NoExecution
    /\ UNCHANGED <<s_pc, job_history>>
    /\ SchedFrame

\* cancel_job on a job the store holds: remove_job, status CANCELLED
CancelJob(j) ==
    /\ j \in DOMAIN scheduled_jobs
    /\ scheduler[j] # "absent"
    /\ scheduler' = [scheduler EXCEPT ![j] = "absent"]
    /\ scheduled_jobs' = [scheduled_jobs EXCEPT ![j].status = CANCELLED]
    /\ s_run' = Interrupted(j, CANCELLED)
    /\ s_last' = NoExecution
    /\ UNCHANGED <<s_pc, job_history>>
    /\ SchedFrame

InitSched ==
    /\ SchedIdle
    /\ YearIdle
    /\ DashIdle
    /\ PoolUnused
    /\ BatchIdle
    /\ DiscIdle
    /\ QueryIdle
    /\ ExtractIdle

NextSched ==
    \/ ScheduleJob
    \/ \E j \in JobIds :
          \/ BeginExecution(j)
          \/ Scrape(j)
          \/ UpdateFromResult(j)
          \/ CloseTool(j)
          \/ HandleException(j)
          \/ ResetRecurring(j)
          \/ RecordExecution(j)
          \/ PauseJob(j)
          \/ ResumeJob(j)
          \/ CancelJob(j)

SpecSched == InitSched /\ [][NextSched]_vars

\* =========================================================================
\* WebDashboard (web_dashboard.py)
\* =========================================================================
\* The dashboard takes no lock.  A step of a thread is what it does between
\* two calls that block (the scraping call, closing the tool, emitting to
\* the clients, writing the history file); the request handlers create_job,
\* start_job and cancel_job run between the steps.  self.job_history receives
\* the entries of completed_jobs and is left out.

DashFrame ==
    UNCHANGED <<poolVars, callerVars, histVars, batchVars, discVars, queryVars,
                extractVars, yearVars, schedVars>>

\* create_job: a PENDING job enters active_jobs, total_jobs += 1
CreateJob ==
    /\ \E j \in DashJobIds :
          /\ j \notin DOMAIN w_jobs
          /\ \A k \in 1..(j - 1) : k \in DOMAIN w_jobs
          /\ w_jobs' = [k \in DOMAIN w_jobs \cup {j} |->
                           IF k = j THEN [status |-> PENDING] ELSE w_jobs[k]]
          /\ active_jobs' = active_jobs \cup {j}
    /\ system_stats' = [system_stats EXCEPT !.total_jobs = @ + 1]
    /\ w_last' = NoDashStep
    /\ UNCHANGED <<completed_jobs, w_pc, w_run>>
    /\ DashFrame

\* start_job on a job of active_jobs, whatever its status: status RUNNING
\* and a new thread with target _execute_job.  (For any other job_id the
\* call raises ValueError and changes nothing.)
StartJob(j) ==
    /\ j \in active_jobs
    /\ \E t \in ThreadIds :
          /\ w_pc[t] = "unused"
          /\ \A k \in 1..(t - 1) : w_pc[k] # "unused"
          /\ w_pc' = [w_pc EXCEPT ![t] = "lookup"]
          /\ w_run' = [w_run EXCEPT ![t] = [NoThread EXCEPT !.job_id = j]]
    /\ w_jobs' = [w_jobs EXCEPT ![j].status = RUNNING]
    /\ w_last' = NoDashStep
    /\ UNCHANGED <<active_jobs, completed_jobs, system_stats>>
    /\ DashFrame

\* job = self.active_jobs[job_id]: KeyError ends the thread when another
\* thread has moved the job already
LookupJob(t) ==
    /\ w_pc[t] = "lookup"
    /\ w_pc' = [w_pc EXCEPT ![t] = IF w_run[t].job_id \in active_jobs
                                   THEN "scraping" ELSE "dead"]
    /\ w_last' = NoDashStep
    /\ UNCHANGED <<w_jobs, active_jobs, completed_jobs, system_stats, w_run>>
    /\ DashFrame

\* tool = WebScrapingTool(...), then scrape_from_query or scrape_from_urls
DashScrape(t) ==
    /\ w_pc[t] = "scraping"
    /\ \E ending \in ScrapeEndings :
          IF ending = "raises"
          THEN /\ w_run' = [w_run EXCEPT ![t].tool = "open"]
               /\ w_pc' = [w_pc EXCEPT ![t] = "except"]
          ELSE /\ w_run' = [w_run EXCEPT ![t].tool = "open", ![t].result = ending]
               /\ w_pc' = [w_pc EXCEPT ![t] = "result"]
    /\ w_last' = NoDashStep
    /\ UNCHANGED <<w_jobs, active_jobs, completed_jobs, system_stats>>
    /\ DashFrame

\* history: the step thread t has made on its job
DashStep(op, t) ==
    [op |-> op, job_id |-> w_run[t].job_id,
     status_before |-> w_jobs[w_run[t].job_id].status, counted |-> TRUE]

\* if result.get('success'): COMPLETED, successful_jobs += 1; else FAILED,
\* failed_jobs += 1
DashResult(t) ==
    /\ w_pc[t] = "result"
    /\ LET j == w_run[t].job_id IN
       IF w_run[t].result = "success"
       THEN /\ w_jobs' = [w_jobs EXCEPT ![j].status = COMPLETED]
            /\ system_stats' = [system_stats EXCEPT !.successful_jobs = @ + 1]
       ELSE /\ w_jobs' = [w_jobs EXCEPT ![j].status = FAILED]
            /\ system_stats' = [system_stats EXCEPT !.failed_jobs = @ + 1]
    /\ w_pc' = [w_pc EXCEPT ![t] = "close"]
    /\ w_last' = DashStep("result", t)
    /\ UNCHANGED <<active_jobs, completed_jobs, w_run>>
    /\ DashFrame

\* tool.close(): returns or raises
DashClose(t) ==
    /\ w_pc[t] = "close"
    /\ \E ok \in BOOLEAN :
          IF ok
          THEN /\ w_run' = [w_run EXCEPT ![t].tool = "closed"]
               /\ w_pc' = [w_pc EXCEPT ![t] = "finally"]
          ELSE /\ w_run' = w_run
               /\ w_pc' = [w_pc EXCEPT ![t] = "except"]
    /\ w_last' = NoDashStep
    /\ UNCHANGED <<w_jobs, active_jobs, completed_jobs, system_stats>>
    /\ DashFrame

\* except Exception: FAILED, failed_jobs += 1
DashExcept(t) ==
    /\ w_pc[t] = "except"
    /\ w_jobs' = [w_jobs EXCEPT ![w_run[t].job_id].status = FAILED]
    /\ system_stats' = [system_stats EXCEPT !.failed_jobs = @ + 1]
    /\ w_pc' = [w_pc EXCEPT ![t] = "finally"]
    /\ w_last' = DashStep("except", t)
    /\ UNCHANGED <<active_jobs, completed_jobs, w_run>>
    /\ DashFrame

\* finally: the job moves from active_jobs to completed_jobs (at most
\* MaxDashJobs entries, far from the 100 the list is cut to)
DashFinally(t) ==
    /\ w_pc[t] = "finally"
    /\ LET j == w_run[t].job_id IN
       IF j \in active_jobs
       THEN /\ active_jobs' = active_jobs \ {j}
            /\ completed_jobs' = Append(completed_jobs, j)
       ELSE UNCHANGED <<active_jobs, completed_jobs>>
    /\ w_pc' = [w_pc EXCEPT ![t] = "done"]
    /\ w_last' = NoDashStep
    /\ UNCHANGED <<w_jobs, system_stats, w_run>>
    /\ DashFrame

\* cancel_job on a RUNNING job of active_jobs: status CANCELLED (on any
\* other job it changes nothing)
CancelDashJob(j) ==
    /\ j \in active_jobs
    /\ w_jobs[j].status = RUNNING
    /\ w_jobs' = [w_jobs EXCEPT ![j].status = CANCELLED]
    /\ w_last' = NoDashStep
    /\ UNCHANGED <<active_jobs, completed_jobs, system_stats, w_pc, w_run>>
    /\ DashFrame

\* the number of threads that execute or have executed job j
Executions(j) ==
    Cardinality({t \in ThreadIds : w_run[t].job_id = j /\ w_pc[t] \notin {"unused", "lookup", "dead"}})

InitDash ==
    /\ DashIdle
    /\ SchedIdle
    /\ YearIdle
    /\ PoolUnused
    /\ BatchIdle
    /\ DiscIdle
    /\ QueryIdle
    /\ ExtractIdle

NextDash ==
    \/ CreateJob
    \/ \E j \in DashJobIds : StartJob(j) \/ CancelDashJob(j)
    \/ \E t \in ThreadIds :
          \/ LookupJob(t)
          \/ DashScrape(t)
          \/ DashResult(t)
          \/ DashClose(t)
          \/ DashExcept(t)
          \/ DashFinally(t)

SpecDash == InitDash /\ [][NextDash]_vars

\* =========================================================================
\* Properties
\* =========================================================================

\* ---- C1 (Spec).  Whatever pool operations came before and whichever
\* rotation strategy is active, a get_next_proxy call that returns an
\* endpoint returns one whose is_working is true, and a call that returns
\* None found no endpoint of the pool with is_working true.
C1_ReturnsOnlyWorking ==
    /\ last_pick.kind = "proxy" => last_pick.working
    /\ last_pick.kind = "none" => ~last_pick.any_working

\* get_next_proxy has just returned an endpoint while the pool also holds an
\* endpoint that is not working
C1_Witness ==
    /\ last_pick.kind = "proxy"
    /\ \E i \in 1..Len(proxies) : ~info[proxies[i]].is_working

\* ---- C2 (Spec).  An endpoint with 3 recorded failures has is_working
\* false (looked at between operations), and get_next_proxy never returns an
\* endpoint that has 3 recorded failures; reset_proxy_stats clears the
\* failures.
C2_ExcludedAfterThreshold ==
    /\ Quiescent =>
          \A i \in 1..Len(proxies) :
             info[proxies[i]].failure_count >= 3 => ~info[proxies[i]].is_working
    /\ last_pick.kind = "proxy" => last_pick.failures < 3

\* ---- C3 (Spec).  One make_request call sends at most 3 requests; it
\* returns None only after 3 failed requests or after get_next_proxy returned
\* None; a request that succeeds is the last one of the call and the call
\* returns its response.
C3_BoundedRetries ==
    /\ \A c \in Callers :
          /\ attempts[c] <= 3
          /\ attempts[c] > fails[c] =>
                /\ attempts[c] = fails[c] + 1
                /\ outcome[c] = "ok"
                /\ pc[c] \in {"load", "store"}
    /\ ret.result = "None" => (ret.got_none \/ (ret.attempts = 3 /\ ret.fails = 3))
    /\ ret.result = "response" => (ret.attempts = ret.fails + 1 /\ ret.attempts <= 3)

\* make_request has just returned None after three failed requests
C3_Witness ==
    /\ ret.result = "None"
    /\ ~ret.got_none
    /\ ret.attempts = 3

\* ---- C4 (Spec).  make_request never ends by raising: every call ends by
\* returning a response or None.
C4_NeverRaises == ret.result # "raised"

\* ---- C5 (SpecConc).  When no make_request call is in progress, every
\* endpoint's success_count + failure_count equals the number of requests
\* whose outcome was to be recorded on it, and total_requests equals the
\* number of requests sent.
C5_NoLostUpdate ==
    Quiescent =>
       /\ \A p \in ProxyIds :
             info[p].success_count + info[p].failure_count = recorded[p]
       /\ usage_stats.total_requests = total_attempts

\* ---- C6 (SpecConc).  Under round-robin, while the working set stays the
\* same n endpoints, the last n selections handed out to the callers are n
\* different endpoints.
C6_RoundRobinNoDuplicate ==
    rotation_strategy = ROUND_ROBIN =>
       \A i, j \in 1..Len(recent) : i # j => recent[i] # recent[j]

\* two callers hold the endpoints of two successive round-robin selections
\* from a working set of at least 2
C6_Witness ==
    /\ rotation_strategy = ROUND_ROBIN
    /\ Len(recent) >= 2
    /\ \E c, d \in Callers :
          /\ c # d
          /\ pc[c] = "request"
          /\ pc[d] = "request"
          /\ recent[Len(recent) - 1] = proxy[c]
          /\ recent[Len(recent)] = proxy[d]

\* ---- C7.  success_rate of an endpoint as a fraction n/d
RateInUnitInterval(r) == r[2] > 0 /\ 0 <= r[1] /\ r[1] <= r[2]
RateIsOne(r) == r[1] = r[2]

\* C7 as stated (Spec): every success_rate lies in [0, 1], and it is 1.0
\* exactly when success_count + failure_count = 0.
C7_RateOneIffNoAttempts ==
    \A p \in ProxyIds :
       /\ RateInUnitInterval(success_rate(info[p]))
       /\ RateIsOne(success_rate(info[p]))
             <=> (info[p].success_count + info[p].failure_count = 0)

\* C7 amended (Spec): every success_rate lies in [0, 1], and it is 1.0
\* exactly when failure_count = 0, which includes the endpoints with no
\* recorded attempt.
C7_RateOneIffNoFailure ==
    \A p \in ProxyIds :
       /\ RateInUnitInterval(success_rate(info[p]))
       /\ RateIsOne(success_rate(info[p])) <=> (info[p].failure_count = 0)

\* an endpoint with recorded successes only, next to one with no attempt
\* and one with a failure
C7_Witness ==
    /\ \E p \in ProxyIds : info[p].success_count > 0 /\ info[p].failure_count = 0
    /\ \E p \in ProxyIds : info[p].failure_count > 0

\* ---- C8 (SpecBatch).  When scrape_from_urls returns, every submitted URL
\* has exactly one entry, in results or in failed_urls, so the two lengths
\* add up to len(urls); and the call never ends by raising an error of one
\* item.
EntriesOf(k) ==
    Cardinality({j \in 1..Len(results) : results[j].item = k})
    + Cardinality({j \in 1..Len(failed_urls) : failed_urls[j].item = k})

C8_EveryUrlAccounted ==
    mode = "scrape_from_urls" =>
       /\ b_pc = "returned" =>
             /\ Len(results) + Len(failed_urls) = Len(urls)
             /\ \A k \in 1..Len(urls) : EntriesOf(k) = 1
             /\ b_ret.failed_urls = failed_urls
       /\ b_pc = "raised" => b_ret.by # "item"

\* a returned batch in which an earlier URL failed and a later one succeeded
C8_Witness ==
    /\ mode = "scrape_from_urls"
    /\ b_pc = "returned"
    /\ \E i \in 1..Len(failed_urls) : \E j \in 1..Len(results) :
          failed_urls[i].item < results[j].item
    /\ \E i \in 1..Len(failed_urls) : failed_urls[i].error = "exception"

\* ---- C9 (SpecBatch).  The loop takes up the URLs one by one in submission
\* order, and the entries of results, and those of failed_urls, stand in the
\* order of their URLs in the submitted list.
C9_SubmissionOrder ==
    /\ \A k \in 1..Len(scrape_log) :
          scrape_log[k].item = k /\ scrape_log[k].url = urls[k]
    /\ \A i, j \in 1..Len(results) : i < j => results[i].item < results[j].item
    /\ \A i, j \in 1..Len(failed_urls) :
          i < j => failed_urls[i].item < failed_urls[j].item
    /\ \A i \in 1..Len(failed_urls) : failed_urls[i].url = urls[failed_urls[i].item]
    /\ \A i \in 1..Len(results) :
          ~HasError(results[i]) => results[i].url = urls[results[i].item]

\* two records of different URLs in results, and two failed entries
C9_Witness ==
    \/ /\ Len(results) >= 2
       /\ results[1].url # results[2].url
       /\ mode = "scrape_from_urls"
       /\ Len(failed_urls) >= 1
    \/ /\ Len(results) >= 3
       /\ mode = "scrape_multiple_urls"
       /\ results[1].url # results[2].url

\* ---- C10 (SpecBatch).  For a malformed URL, scrape_url returns an error
\* record with reason "Invalid URL" and no page is fetched; scrape_from_urls
\* puts the URL into failed_urls and not into results.
C10_InvalidUrlRejected ==
    \A k \in 1..Len(scrape_log) :
       urls[k] = "not a url" =>
          /\ net_calls[k] = 0
          /\ mode = "scrape_from_urls" =>
                /\ \A j \in 1..Len(results) : results[j].item # k
                /\ \E j \in 1..Len(failed_urls) :
                      /\ failed_urls[j].item = k
                      /\ failed_urls[j].url = "not a url"
                      /\ scrape_log[k].returned => failed_urls[j].error = "Invalid URL"
          /\ mode = "scrape_multiple_urls" =>
                \E j \in 1..Len(results) :
                   /\ results[j].item = k
                   /\ results[j].error = "Invalid URL"

\* a returned batch that held a malformed URL after a URL that was fetched
C10_Witness ==
    /\ mode = "scrape_from_urls"
    /\ b_pc = "returned"
    /\ \E k \in 2..Len(urls) :
          /\ urls[k] = "not a url"
          /\ scrape_log[k].returned
          /\ net_calls[k - 1] > 0

\* ---- C12 (SpecBatch).  The tiers are cumulative: the fields a record of
\* each level must hold, and the fields owned by the tiers above it.
FieldsOfLevel(level) ==
    IF level = "basic" THEN BasicFields
    ELSE IF level = "medium" THEN BasicFields \cup MediumFields
    ELSE BasicFields \cup MediumFields \cup AdvancedFields

FieldsAboveLevel(level) ==
    IF level = "basic" THEN MediumFields \cup AdvancedFields
    ELSE IF level = "medium" THEN AdvancedFields
    ELSE {}

\* C12: every non-error record returned by scrape_url has extraction_level
\* basic, medium or advanced, holds the six required fields and all fields
\* of its declared level, and holds no field owned by a higher tier.
C12_RecordMatchesLevel ==
    (last_scrape.called /\ "error" \notin last_scrape.keys) =>
       /\ last_scrape.extraction_level \in Levels
       /\ BasicFields \subseteq last_scrape.keys
       /\ FieldsOfLevel(last_scrape.extraction_level) \subseteq last_scrape.keys
       /\ last_scrape.keys \cap FieldsAboveLevel(last_scrape.extraction_level) = {}

\* ---- C13 (SpecBatch).  When the fetch of the basic tier fails, scrape_url
\* called at any of the three levels returns a record whose only key is
\* error (no company data, no extraction_level), and scrape_from_urls puts
\* the URL into failed_urls and not into results.
C13_BasicFailureIsErrorOnly ==
    (/\ last_scrape.called
     /\ validators_url(last_scrape.url)
     /\ last_scrape.level \in Levels
     /\ ~last_scrape.f1) =>
       /\ last_scrape.keys = {"error"}
       /\ last_scrape.extraction_level = ""
       /\ mode = "scrape_from_urls" =>
             /\ \A j \in 1..Len(results) : results[j].item # next_item - 1
             /\ failed_urls # <<>>
             /\ failed_urls[Len(failed_urls)].item = next_item - 1
             /\ failed_urls[Len(failed_urls)].url = last_scrape.url
             /\ failed_urls[Len(failed_urls)].error = "Failed to fetch page content"

\* an advanced extraction whose first fetch failed, after an item that was
\* extracted
C13_Witness ==
    /\ mode = "scrape_from_urls"
    /\ last_scrape.called
    /\ validators_url(last_scrape.url)
    /\ last_scrape.level = "advanced"
    /\ ~last_scrape.f1
    /\ results # <<>>

\* ---- C14 (SpecBatch).  The tier an extraction has completed when every
\* tier is entered only after the one below it has completed.
CompletedTier(level, f2, f3) ==
    IF level = "basic" \/ ~f2 THEN "basic"
    ELSE IF level = "medium" \/ ~f3 THEN "medium"
    ELSE "advanced"

\* C14: when the basic tier succeeds and the fetch of the medium or of the
\* advanced tier fails, scrape_url returns the record of the highest tier
\* that completed, unchanged: its extraction_level is that lower tier, its
\* fields are exactly those of that tier, and it is no error record.
C14_DegradesToCompletedTier ==
    (/\ last_scrape.called
     /\ validators_url(last_scrape.url)
     /\ last_scrape.f1
     /\ ~last_scrape.exc
     /\ \/ last_scrape.level = "medium" /\ ~last_scrape.f2
        \/ last_scrape.level = "advanced" /\ (~last_scrape.f2 \/ ~last_scrape.f3)) =>
       LET done == CompletedTier(last_scrape.level, last_scrape.f2, last_scrape.f3) IN
       /\ "error" \notin last_scrape.keys
       /\ last_scrape.extraction_level = done
       /\ last_scrape.extraction_level # last_scrape.level
       /\ last_scrape.keys = FieldsOfLevel(done)

\* ---- C19 (SpecBatch).  When scrape_from_urls returns, success is true
\* exactly when results is not empty; with success false (an empty batch, or
\* every URL failed) nothing was saved, the dictionary has no results, and
\* failed_urls holds one entry for every submitted URL.
C19_SuccessIffAnyResult ==
    (mode = "scrape_from_urls" /\ b_pc = "returned") =>
       /\ b_ret.success <=> (results # <<>>)
       /\ b_ret.success => (b_ret.saved /\ b_ret.results = results)
       /\ ~b_ret.success =>
             /\ ~b_ret.saved
             /\ ~b_ret.has_results_key
             /\ b_ret.failed_urls = failed_urls
             /\ Len(failed_urls) = Len(urls)

\* a batch of at least two URLs, all failed, has returned success false
C19_Witness ==
    /\ mode = "scrape_from_urls"
    /\ b_pc = "returned"
    /\ ~b_ret.success
    /\ Len(urls) >= 2
    /\ Len(b_ret.failed_urls) = Len(urls)

\* ---- C20 (Spec).  Under weighted_random every working endpoint whose
\* success_rate is 0 is among the endpoints the next get_next_proxy call
\* may return.
C20_ZeroRateStillPickable ==
    rotation_strategy = WEIGHTED_RANDOM =>
       LET w == WorkingProxies(proxies, info) IN
       \A i \in 1..Len(w) :
          WeightIsZero(info[w[i]]) => w[i] \in Picks(rotation_strategy, w, info, current_index)

\* ---- C15 (SpecDiscovery).  Filtering is idempotent on one instance: when
\* _filter_company_urls is applied to the list its previous call returned,
\* it returns that list unchanged.
C15_FilterIdempotent ==
    (d_last.op = "filter" /\ d_last.had_prev /\ d_last.input = d_last.prev_out) =>
       d_last.output = d_last.input

\* ---- C16 (SpecDiscovery).  The URLs of the universe on the non-company
\* denylist, and those of a non-root page.
Denylisted == {"https://facebook.com/acme", "https://acme.blogspot.com"}
NonRootPages == {"https://a.example/careers"}

PassesChecks(url) == validators_url(url) /\ url \notin Denylisted /\ url \notin NonRootPages

FirstIndex(us, url) == CHOOSE i \in 1..Len(us) : us[i] = url /\ \A j \in 1..(i - 1) : us[j] # url

\* C16: on a fresh SearchDiscovery session the list _filter_company_urls
\* returns holds no denylisted URL and no non-root page, holds every input
\* URL that is valid and passes these checks, holds each once, and keeps
\* the order of their first occurrences in the input.
C16_FreshFilterKeepsCompanies ==
    (d_kind = "SearchDiscovery" /\ d_last.op = "filter" /\ d_last.fresh) =>
       LET input == d_last.input
           out == d_last.output
       IN  /\ \A i \in 1..Len(out) : PassesChecks(out[i])
           /\ \A i \in 1..Len(out) : \E k \in 1..Len(input) : input[k] = out[i]
           /\ \A k \in 1..Len(input) :
                 PassesChecks(input[k]) => \E i \in 1..Len(out) : out[i] = input[k]
           /\ \A i, j \in 1..Len(out) : i # j => out[i] # out[j]
           /\ \A i, j \in 1..Len(out) :
                 i < j => FirstIndex(input, out[i]) < FirstIndex(input, out[j])

\* a fresh session filtered a list that repeats a company URL after a
\* careers page and returned it once
C16_Witness ==
    /\ d_kind = "SearchDiscovery"
    /\ d_last.op = "filter"
    /\ d_last.fresh
    /\ d_last.input = <<"https://a.example/careers", "https://b.example", "https://b.example">>
    /\ d_last.output = <<"https://b.example">>

\* ---- C17 (SpecDiscovery).  For a query that contains a keyword of a
\* curated category and max_results >= 1, search_companies of
\* ImprovedSearchDiscovery returns a non-empty list that holds a curated
\* URL of a matching category, whatever the network strategies returned.
C17_CuratedFallbackNonEmpty ==
    (/\ d_last.op = "search"
     /\ MatchingCategories(d_last.query) # <<>>
     /\ d_last.max_results >= 1) =>
       /\ d_last.output # <<>>
       /\ \E i \in 1..Len(d_last.output) :
          \E c \in 1..Len(MatchingCategories(d_last.query)) :
          \E k \in 1..4 :
             d_last.output[i] = sample_companies(MatchingCategories(d_last.query)[c])[k]

\* ---- C11 (SpecQuery).  Once the primary discovery has ended without an
\* interrupt, the secondary discovery is invoked exactly when the primary
\* returned no URL or failed; when both yield no URL, scrape_from_query
\* returns "No companies found"; and a run that returned so has entered no
\* extraction and no save.
C11_FallbackExactlyOnZero ==
    /\ (q_pc \in {"decide", "scrape", "close", "done"} /\ q_hist.primary # "interrupted") =>
          (q_hist.secondary # "none" <=> q_hist.primary \in {"zero", "failed"})
    /\ (q_pc \in {"scrape", "close", "done"} /\ q_hist.secondary \in {"zero", "failed"}) =>
          q_hist.ret = "no_companies"
    /\ q_hist.ret = "no_companies" =>
          /\ q_hist.primary \in {"zero", "failed"}
          /\ q_hist.secondary \in {"zero", "failed"}
          /\ mode = "none"
          /\ scrape_log = <<>>
          /\ net_calls = <<>>
          /\ b_ret.kind = "none"

\* a command whose primary discovery returned nothing and whose secondary
\* discovery returned nothing has ended with "No companies found"
C11_Witness ==
    /\ q_pc = "done"
    /\ q_hist.primary = "zero"
    /\ q_hist.secondary = "zero"
    /\ q_hist.ret = "no_companies"

\* ---- C18 (SpecQuery).  When the command has ended, however the run
\* ended, every browser driver and every HTTP session the run has created is
\* released.
C18_AllReleased ==
    q_pc = "done" => \A r \in ResourceNames : resources[r] \in {"absent", "closed"}
\* ---- C22 (Spec).  Every request of a make_request call, the first and
\* each retry, is sent through the endpoint get_next_proxy selected for that
\* attempt (kwargs['proxies'] is that endpoint), and its outcome is recorded
\* on that endpoint.
C22_SentThroughSelected ==
    \A c \in Callers :
       pc[c] \in {"load", "store", "mark"} => kwargs_proxies[c] = proxy[c]

\* ---- C23 (Spec).  Between operations, every endpoint of the pool whose
\* failure_count has reached max_failures has is_working false, whichever
\* operation recorded the failures.
C23_ThresholdMeansNotWorking ==
    Quiescent =>
       \A i \in 1..Len(proxies) :
          ReachedThreshold(info[proxies[i]]) => ~info[proxies[i]].is_working

\* ---- C24 (Spec).  When test_all_proxies has completed, no endpoint that
\* failed its probe in that run is in the pool, and every endpoint that
\* passed is in it.
C24_FailedProbesPruned ==
    last_probe.op = "test_all" =>
       /\ \A p \in last_probe.failed : ~InList(p)
       /\ \A p \in last_probe.passed : InList(p)

\* ---- C25 (SpecRotation).  Under round-robin, while the working set stays
\* the same n endpoints, the last n selections are n different endpoints and
\* each selection is the cyclic successor, in the order of the pool's list,
\* of the selection before it.
C25_RoundRobinCyclic ==
    rotation_strategy = ROUND_ROBIN =>
       LET w == WorkingProxies(proxies, info) IN
       /\ Len(recent) <= Len(w)
       /\ \A i, j \in 1..Len(recent) : i # j => recent[i] # recent[j]
       /\ \A i \in 1..(Len(recent) - 1) :
             \E k \in 1..Len(w) :
                /\ w[k] = recent[i]
                /\ w[(k % Len(w)) + 1] = recent[i + 1]

\* three successive selections from a working set of three endpoints, the
\* first of which was not the head of the list
C25_Witness ==
    /\ rotation_strategy = ROUND_ROBIN
    /\ Len(WorkingProxies(proxies, info)) = 3
    /\ Len(recent) = 3
    /\ recent[1] # proxies[1]
    /\ last_pick.kind = "proxy"

\* ---- C26 (Spec).  Under best-performance the endpoint get_next_proxy
\* returns is a working one, no working endpoint has a higher success_rate,
\* and when it has no response_time then no working endpoint of the same
\* success_rate has one.
C26_BestPerformanceFirst ==
    (rotation_strategy = BEST_PERFORMANCE /\ last_pick.kind = "proxy") =>
       LET w == WorkingProxies(proxies, info)
           chosen == info[last_pick.id]
       IN  /\ chosen.is_working
           /\ \A i \in 1..Len(w) :
                 /\ ~RateLess(success_rate(chosen), success_rate(info[w[i]]))
                 /\ (/\ RateEq(success_rate(chosen), success_rate(info[w[i]]))
                     /\ chosen.response_time = 0) => info[w[i]].response_time = 0

\* ---- C27 (SpecDiscovery).  In a search_and_discover call on a fresh
\* session, every URL an engine contributed that is valid, not denylisted
\* and no non-root page is in the returned list, unless the list was cut
\* off at max_results.
C27_OwnCandidatesSurvive ==
    (d_last.op = "search_and_discover" /\ d_last.fresh) =>
       \A k \in 1..Len(d_last.input) :
          PassesChecks(d_last.input[k]) =>
             \/ \E i \in 1..Len(d_last.output) : d_last.output[i] = d_last.input[k]
             \/ Len(d_last.output) = d_last.max_results

\* ---- C28 (SpecDiscovery).  search_companies queries its strategies in
\* the order curated, search engines, directories, GitHub; and when the
\* curated URLs that pass the filter already fill the budget max_results, no
\* strategy after the curated lists is queried.
C28_StopsWhenBudgetMet ==
    (d_last.op = "search" /\ d_last.fresh /\ d_last.max_results >= 1) =>
       LET order == <<"curated", "search_engines", "directories", "github">>
           curated == filter_company_urls("ImprovedSearchDiscovery",
                                          Dedup(get_sample_companies(d_last.query)), {}).out
       IN  /\ \A i \in 1..Len(d_last.queried) : d_last.queried[i] = order[i]
           /\ Len(curated) >= d_last.max_results => Len(d_last.queried) = 1

\* ---- C21.  A page whose only address-like text is "123 Main Street": no
\* element matches an address selector, and it has no description.
MainStreetPage(page) ==
    /\ page.address_element = "none"
    /\ page.address_text
    /\ page.description = ""

C29_AdvancedMeansRendered ==
    x_data.extraction_level = "advanced" =>
       /\ x_hist.medium_done
       /\ x_hist.rendered
       /\ x_in.selenium # "failed"

\* ---- C30 (SpecExtract).  The merge of a contact page only grows the
\* record: the e-mail and phone sets and the keys after it include those
\* before it, every other value is unchanged except an address that was
\* empty, and a contact page that could not be fetched leaves the record
\* unchanged.
C30_ContactMergeGrows ==
    x_last.op = "contact" =>
       LET before == x_last.before IN
       /\ before.email \subseteq x_data.email
       /\ before.phone \subseteq x_data.phone
       /\ before.keys \subseteq x_data.keys
       /\ before.address # "" => x_data.address = before.address
       /\ x_data.description = before.description
       /\ x_data.extraction_level = before.extraction_level
       /\ x_last.outcome = "no_page" => x_data = before

\* a contact page with one more e-mail address and another address was
\* merged into a record that had an e-mail address and an address
C30_Witness ==
    /\ x_last.op = "contact"
    /\ x_last.outcome = "merged"
    /\ x_last.before.email = {"info@a.example"}
    /\ x_data.email = {"info@a.example", "sales@a.example"}
    /\ x_last.before.address = "123 Main Street"
    /\ x_data.phone # x_last.before.phone
\* C31: a matched founding year between 1900 and the current calendar year
\* is accepted: when the first pattern that matches anywhere matches such a
\* year first, that year is returned.
C31_AcceptsUpToCurrentYear ==
    fy.called =>
        \A i \in 1..Len(fy.matches) :
            (/\ \A k \in 1..(i - 1) : fy.matches[k] = 0
             /\ 1900 <= fy.matches[i]
             /\ fy.matches[i] <= fy.this_year) => fy.year = fy.matches[i]

\* ---- C32 (Spec).  Whenever no make_request call is in progress, the
\* usage statistics balance: total_requests is successful_requests plus
\* failed_requests, and proxy_failures equals failed_requests.
C32_StatsBalance ==
    Quiescent =>
       /\ usage_stats.total_requests =
             usage_stats.successful_requests + usage_stats.failed_requests
       /\ usage_stats.proxy_failures = usage_stats.failed_requests

\* calls have returned after both successful and failed requests
C32_Witness ==
    /\ Quiescent
    /\ calls >= 2
    /\ usage_stats.successful_requests >= 1
    /\ usage_stats.failed_requests >= 2

\* ---- C33 (Spec).  Under weighted_random a get_next_proxy call made while
\* some endpoint is working does not raise.
C33_WeightedNeverRaises ==
    (rotation_strategy = WEIGHTED_RANDOM /\ last_pick.any_working)
        => last_pick.kind # "raise"

\* ---- C34 (SpecDiscovery).  What a discovery call records as seen it has
\* returned: after the first search_companies or search_and_discover call
\* of an instance, every member of discovered_urls is in the list returned.
C34_SeenMeansReturned ==
    (d_last.op \in {"search", "search_and_discover"} /\ d_last.fresh)
        => discovered_urls \subseteq Elements(d_last.output)

\* ---- C35 (SpecSched).  When an execution of a scheduled job has finished,
\* the job's run_count is its success_count plus its failure_count.
C35_RunsAreSuccessesPlusFailures ==
    s_last.finished =>
        LET job == scheduled_jobs[s_last.job] IN
        job.run_count = job.success_count + job.failure_count

\* ---- C36 (SpecSched).  An execution that returned an unsuccessful result
\* or raised, and during which no control call reached the job, leaves
\* the job FAILED, whatever its schedule type.
C36_FailedRunLeavesFailed ==
    (/\ s_last.finished
     /\ s_last.result = "unsuccessful" \/ s_last.raised
     /\ s_last.interrupted = "none")
        => scheduled_jobs[s_last.job].status = FAILED

\* ---- C37 (SpecSched).  When pause_job or cancel_job reached a job during
\* an execution, the job is PAUSED, respectively CANCELLED, when that
\* execution has finished.
C37_ControlStatusSurvives ==
    (s_last.finished /\ s_last.interrupted \in {PAUSED, CANCELLED})
        => scheduled_jobs[s_last.job].status = s_last.interrupted

\* ---- C38 (SpecDash).  A step of the background execution made on a
\* job that cancel_job has set CANCELLED leaves it CANCELLED and counts it
\* neither in successful_jobs nor in failed_jobs.
C38_CancelledStaysCancelled ==
    (w_last.op \in {"result", "except"} /\ w_last.status_before = CANCELLED)
        => (w_jobs[w_last.job_id].status = CANCELLED /\ ~w_last.counted)

\* ---- C39 (SpecDash).  No dashboard job is executed by more than one
\* thread.
C39_ExecutedAtMostOnce == \A j \in DOMAIN w_jobs : Executions(j) <= 1

\* ---- C40 (SpecSched).  When an execution of a scheduled job or of a
\* dashboard job has ended, the WebScrapingTool it created is closed.
C40_ToolClosedAtEnd ==
    /\ s_last.finished => s_last.tool # "open"
    /\ \A t \in ThreadIds : w_pc[t] = "done" => w_run[t].tool # "open"

====
